---- MODULE Spec2Model ----
(***************************************************************************)
(* Encrypted Forest: the confidential circuits (encrypted-ixs/src/lib.rs)  *)
(* and the on-chain queue / callback state machine                         *)
(* (programs/encrypted_forest/src/lib.rs).                                 *)
(*                                                                         *)
(* Two groups of variables share the module.  The ledger group (clock,     *)
(* game, bodies, pendings, move_accounts, computations, result) is the     *)
(* account state of the program plus the computations queued on the MPC    *)
(* cluster.  The circuit group (state, last) is one PlanetState value and  *)
(* the record of the last circuit applied to it.  The spawn group          *)
(* (players, spawn_bodies, spawns) is the Player accounts, the planets     *)
(* created by init and spawn requests and the spawn computations in        *)
(* flight.                                                                 *)
(***************************************************************************)
EXTENDS Integers, Sequences, FiniteSets, Bags, TLC

VARIABLES clock, game, bodies, pendings, move_accounts, computations, result,
          state, last, players, spawn_bodies, spawns

ledgerVars == <<clock, game, bodies, pendings, move_accounts, computations, result>>
circuitVars == <<state, last>>
spawnVars == <<players, spawn_bodies, spawns>>
vars == <<clock, game, bodies, pendings, move_accounts, computations, result,
          state, last, players, spawn_bodies, spawns>>

(***************************************************************************)
(* 64-bit words that the hash engine needs at full width are kept as eight *)
(* base-256 digits, least significant first (index 1 = byte 0).  Sums and  *)
(* products wrap modulo 2^64 by dropping the carry out of the top digit.   *)
(***************************************************************************)
RECURSIVE Digit(_, _)
Digit(n, i) == IF i = 0 THEN n % 256 ELSE Digit(n \div 256, i - 1)

W64(n) == [i \in 1..8 |-> Digit(n, i - 1)]

RECURSIVE Carry64(_, _, _, _)
\* carry into digit i of a*k + b (a, b digit vectors, k a small natural)
Carry64(a, k, b, i) ==
    IF i = 1 THEN 0
    ELSE (a[i - 1] * k + b[i - 1] + Carry64(a, k, b, i - 1)) \div 256

MulAdd64(a, k, b) ==
    [i \in 1..8 |-> (a[i] * k + b[i] + Carry64(a, k, b, i)) % 256]

(***************************************************************************)
(* Noise / hash engine                                                     *)
(***************************************************************************)
mix_hash(x, y, game_id) ==
    LET a == MulAdd64(x, 31, MulAdd64(y, 37, MulAdd64(game_id, 41, W64(7))))
        b == MulAdd64(y, 43, MulAdd64(game_id, 47, MulAdd64(x, 53, W64(13))))
        c == MulAdd64(game_id, 59, MulAdd64(x, 61, MulAdd64(y, 67, W64(17))))
        d == MulAdd64(a, 3, MulAdd64(b, 5, MulAdd64(c, 7, W64(19))))
    IN  <<a, b, c, d>>

\* (h / divisor) % 256 with divisor = 256^k is base-256 digit k of h
\* extraction that reads one byte too high
extract_byte_Shifted(h, index) ==
    LET k == IF index = 0 THEN 1
             ELSE IF index = 1 THEN 2
             ELSE IF index = 2 THEN 3
             ELSE IF index = 3 THEN 4
             ELSE IF index = 4 THEN 5
             ELSE 6
    IN  h[k + 1]

extract_byte(h, index) ==
    LET k == IF index = 0 THEN 0
             ELSE IF index = 1 THEN 1
             ELSE IF index = 2 THEN 2
             ELSE IF index = 3 THEN 3
             ELSE IF index = 4 THEN 4
             ELSE 5
    IN  h[k + 1]

determine_body_type(byte1, planet_threshold, quasar_threshold, spacetime_rip_threshold) ==
    IF byte1 < planet_threshold THEN 0
    ELSE IF byte1 < quasar_threshold THEN 1
    ELSE IF byte1 < spacetime_rip_threshold THEN 2
    ELSE 3

determine_size(byte2, t1, t2, t3, t4, t5) ==
    IF byte2 < t1 THEN 1
    ELSE IF byte2 < t2 THEN 2
    ELSE IF byte2 < t3 THEN 3
    ELSE IF byte2 < t4 THEN 4
    ELSE IF byte2 < t5 THEN 5
    ELSE 6

determine_comet_count(byte3) ==
    IF byte3 <= 216 THEN 0
    ELSE IF byte3 <= 242 THEN 1
    ELSE 2

comet_from_byte(b) == b % 6

\* a second comet chosen without looking at the first
comet_from_byte_avoiding_Same(b, first) == b % 6

\* b + 1 is a u8 sum: it wraps at 256
comet_from_byte_avoiding(b, first) ==
    LET c == b % 6
    IN  IF c = first THEN ((b + 1) % 256) % 6 ELSE c

\* <<ship_cap, ship_gen, metal_cap, metal_gen, range, velocity, native_ships>>
base_stats(body_type, size) ==
    LET s == size
        s_sq == s * s
    IN  IF body_type = 0
        THEN <<100 * s_sq, 1 * s, 0, 0, 3 + s, 1 + s, IF size = 1 THEN 0 ELSE 10 * s>>
        ELSE IF body_type = 1
        THEN <<500 * s_sq, 0, 500 * s_sq, 0, 2 + s, 1 + s, 20 * s>>
        ELSE IF body_type = 2
        THEN <<50 * s_sq, 1 * s, 0, 0, 2 + s, 1 + s, 15 * s>>
        ELSE <<80 * s_sq, 0, 200 * s_sq, 2 * s, 2 + s, 1 + s, 10 * s>>

\* st = <<ship_cap, ship_gen, metal_cap, metal_gen, range, velocity>>
apply_one_comet(comet_val, active, st) ==
    IF active = 0 THEN st
    ELSE <<IF comet_val = 0 THEN st[1] * 2 ELSE st[1],
           IF comet_val = 2 THEN st[2] * 2 ELSE st[2],
           IF comet_val = 1 THEN st[3] * 2 ELSE st[3],
           IF comet_val = 3 THEN st[4] * 2 ELSE st[4],
           IF comet_val = 4 THEN st[5] * 2 ELSE st[5],
           IF comet_val = 5 THEN st[6] * 2 ELSE st[6]>>

(***************************************************************************)
(* Resource and combat helpers.  Counts, slots and speeds are naturals;    *)
(* the inputs drawn below keep every product and sum far below 2^64, so    *)
(* the u64 arithmetic of the circuits is exact on them.                    *)
(***************************************************************************)
\* regeneration that is not capped at max_capacity
compute_current_resource_Uncapped(last_count, max_capacity, gen_speed, last_updated_slot, current_slot, game_speed) ==
    IF gen_speed = 0 THEN last_count
    ELSE IF game_speed = 0 THEN last_count
    ELSE IF current_slot <= last_updated_slot THEN last_count
    ELSE last_count + (gen_speed * (current_slot - last_updated_slot)) \div game_speed

compute_current_resource(last_count, max_capacity, gen_speed, last_updated_slot, current_slot, game_speed) ==
    IF gen_speed = 0 THEN last_count
    ELSE IF game_speed = 0 THEN last_count
    ELSE IF current_slot <= last_updated_slot THEN last_count
    ELSE LET elapsed == current_slot - last_updated_slot
             generated == (gen_speed * elapsed) \div game_speed
             total == last_count + generated
         IN  IF total > max_capacity THEN max_capacity ELSE total

compute_abs_diff(a, b) == IF a > b THEN a - b ELSE b - a

compute_distance(sx, sy, tx, ty) ==
    LET dx == compute_abs_diff(sx, tx)
        dy == compute_abs_diff(sy, ty)
        max_d == IF dx > dy THEN dx ELSE dy
        min_d == IF dx > dy THEN dy ELSE dx
    IN  max_d + min_d \div 2

apply_distance_decay(ships, distance, range) ==
    IF range = 0 THEN 0
    ELSE LET lost == distance \div range
         IN  IF ships > lost THEN ships - lost ELSE 0

compute_landing_slot_IgnoresVelocity(current_slot, distance, velocity, game_speed) ==
    IF velocity = 0 THEN current_slot + 999999999
    ELSE current_slot + distance * game_speed

compute_landing_slot(current_slot, distance, velocity, game_speed) ==
    IF velocity = 0 THEN current_slot + 999999999
    ELSE current_slot + (distance * game_speed) \div velocity

upgrade_cost_StopsAt8(level) ==
    LET base == 100
        mult == IF level = 1 THEN 2
                ELSE IF level = 2 THEN 4
                ELSE IF level = 3 THEN 8
                ELSE IF level = 4 THEN 16
                ELSE IF level = 5 THEN 32
                ELSE IF level = 6 THEN 64
                ELSE IF level = 7 THEN 128
                ELSE 256
    IN  base * mult

upgrade_cost(level) ==
    LET base == 100
        mult == IF level = 1 THEN 2
                ELSE IF level = 2 THEN 4
                ELSE IF level = 3 THEN 8
                ELSE IF level = 4 THEN 16
                ELSE IF level = 5 THEN 32
                ELSE IF level = 6 THEN 64
                ELSE IF level = 7 THEN 128
                ELSE IF level = 8 THEN 256
                ELSE IF level = 9 THEN 512
                ELSE 1024
    IN  base * mult

build_planet_state(body_type, size, comet_count, comet_0, comet_1, owner_exists, owner_0, owner_1, owner_2, owner_3) ==
    LET bs == base_stats(body_type, size)
        c0_active == IF comet_count >= 1 THEN 1 ELSE 0
        s1 == apply_one_comet(comet_0, c0_active,
                              <<bs[1], bs[2], bs[3], bs[4], bs[5], bs[6]>>)
        c1_active == IF comet_count >= 2 THEN 1 ELSE 0
        s2 == apply_one_comet(comet_1, c1_active, s1)
    IN  [body_type |-> body_type,
         size |-> size,
         owner_exists |-> owner_exists,
         owner_0 |-> owner_0,
         owner_1 |-> owner_1,
         owner_2 |-> owner_2,
         owner_3 |-> owner_3,
         ship_count |-> IF owner_exists = 1 THEN 0 ELSE bs[7],
         max_ship_capacity |-> s2[1],
         ship_gen_speed |-> s2[2],
         metal_count |-> 0,
         max_metal_capacity |-> s2[3],
         metal_gen_speed |-> s2[4],
         range |-> s2[5],
         launch_velocity |-> s2[6],
         level |-> 1,
         comet_count |-> comet_count,
         comet_0 |-> comet_0,
         comet_1 |-> comet_1]

(***************************************************************************)
(* Circuits.  Each takes the decrypted inputs and returns the records that *)
(* the circuit re-encrypts: the planet state and the revealed scalars.     *)
(***************************************************************************)
\* a circuit that makes every coordinate a size-1 Planet without comets
init_planet_Unclassified(inp) ==
    LET h == mix_hash(inp.x, inp.y, inp.game_id)
    IN  [state |-> build_planet_state(0, 1, 0, 255, 255, 0, 0, 0, 0, 0),
         revealed |-> [hash_0 |-> h[1], hash_1 |-> h[2],
                       hash_2 |-> h[3], hash_3 |-> h[4],
                       valid |-> IF extract_byte(h[1], 0) >= inp.dead_space_threshold
                                 THEN 1 ELSE 0]]

init_planet(inp) ==
    LET h == mix_hash(inp.x, inp.y, inp.game_id)
        byte0 == extract_byte(h[1], 0)
        byte1 == extract_byte(h[1], 1)
        byte2 == extract_byte(h[1], 2)
        byte3 == extract_byte(h[1], 3)
        byte4 == extract_byte(h[1], 4)
        byte5 == extract_byte(h[1], 5)
        is_body == IF byte0 >= inp.dead_space_threshold THEN 1 ELSE 0
        body_type == determine_body_type(byte1, inp.planet_threshold,
                         inp.quasar_threshold, inp.spacetime_rip_threshold)
        size == determine_size(byte2, inp.size_threshold_1, inp.size_threshold_2,
                    inp.size_threshold_3, inp.size_threshold_4, inp.size_threshold_5)
        comet_count == determine_comet_count(byte3)
        comet_0 == comet_from_byte(byte4)
        comet_1_raw == comet_from_byte_avoiding(byte5, comet_0)
        comet_1 == IF comet_count >= 2 THEN comet_1_raw ELSE 255
        comet_0_final == IF comet_count >= 1 THEN comet_0 ELSE 255
    IN  [state |-> build_planet_state(body_type, size, comet_count,
                       comet_0_final, comet_1, 0, 0, 0, 0, 0),
         revealed |-> [hash_0 |-> h[1], hash_1 |-> h[2],
                       hash_2 |-> h[3], hash_3 |-> h[4],
                       valid |-> is_body]]

SpawnOwnerLimb_Always(is_spawn_valid, key_limb) == key_limb

\* one limb of the owner key init_spawn_planet writes
SpawnOwnerLimb(is_spawn_valid, key_limb) ==
    IF is_spawn_valid = 1 THEN key_limb ELSE 0

init_spawn_planet(inp) ==
    LET h == mix_hash(inp.x, inp.y, inp.game_id)
        byte0 == extract_byte(h[1], 0)
        byte1 == extract_byte(h[1], 1)
        byte2 == extract_byte(h[1], 2)
        byte3 == extract_byte(h[1], 3)
        byte4 == extract_byte(h[1], 4)
        byte5 == extract_byte(h[1], 5)
        is_body == IF byte0 >= inp.dead_space_threshold THEN 1 ELSE 0
        body_type == determine_body_type(byte1, inp.planet_threshold,
                         inp.quasar_threshold, inp.spacetime_rip_threshold)
        size == determine_size(byte2, inp.size_threshold_1, inp.size_threshold_2,
                    inp.size_threshold_3, inp.size_threshold_4, inp.size_threshold_5)
        comet_count == determine_comet_count(byte3)
        comet_0 == comet_from_byte(byte4)
        comet_1_raw == comet_from_byte_avoiding(byte5, comet_0)
        comet_1 == IF comet_count >= 2 THEN comet_1_raw ELSE 255
        comet_0_final == IF comet_count >= 1 THEN comet_0 ELSE 255
        is_planet == IF body_type = 0 THEN 1 ELSE 0
        is_miniscule == IF size = 1 THEN 1 ELSE 0
        is_spawn_valid == is_body * is_planet * is_miniscule
        owner_exists == is_spawn_valid
        o0 == SpawnOwnerLimb(is_spawn_valid, inp.player_key_0)
        o1 == SpawnOwnerLimb(is_spawn_valid, inp.player_key_1)
        o2 == SpawnOwnerLimb(is_spawn_valid, inp.player_key_2)
        o3 == SpawnOwnerLimb(is_spawn_valid, inp.player_key_3)
    IN  [state |-> build_planet_state(body_type, size, comet_count,
                       comet_0_final, comet_1, owner_exists, o0, o1, o2, o3),
         revealed |-> [hash_0 |-> h[1], hash_1 |-> h[2],
                       hash_2 |-> h[3], hash_3 |-> h[4],
                       valid |-> is_body,
                       is_spawn_valid |-> is_spawn_valid]]

\* lazily regenerated count as process_move computes it (no owner test)
MoveRegen(last_count, max_capacity, gen_speed, mv) ==
    compute_current_resource(last_count, max_capacity, gen_speed,
                             mv.last_updated_slot, mv.current_slot, mv.game_speed)

\* a rejected move deducts nothing from the (regenerated) count
MoveDeduct_Always(valid, current, amount) == current - amount

MoveDeduct(valid, current, amount) ==
    IF valid = 1 THEN current - amount ELSE current

PendingMoveData_Undecayed(valid, surviving, mv) ==
    [ships_arriving |-> IF valid = 1 THEN mv.ships_to_send ELSE 0,
     metal_arriving |-> IF valid = 1 THEN mv.metal_to_send ELSE 0,
     attacker_0 |-> mv.player_key_0,
     attacker_1 |-> mv.player_key_1,
     attacker_2 |-> mv.player_key_2,
     attacker_3 |-> mv.player_key_3]

\* the payload process_move encrypts for the target's move account
PendingMoveData(valid, surviving, mv) ==
    [ships_arriving |-> IF valid = 1 THEN surviving ELSE 0,
     metal_arriving |-> IF valid = 1 THEN mv.metal_to_send ELSE 0,
     attacker_0 |-> mv.player_key_0,
     attacker_1 |-> mv.player_key_1,
     attacker_2 |-> mv.player_key_2,
     attacker_3 |-> mv.player_key_3]

HasMetal_Unchecked(current_metal, metal_to_send) == TRUE

HasMetal(current_metal, metal_to_send) == current_metal >= metal_to_send

process_move(st, mv) ==
    LET owner_match == IF /\ st.owner_exists = 1
                          /\ st.owner_0 = mv.player_key_0
                          /\ st.owner_1 = mv.player_key_1
                          /\ st.owner_2 = mv.player_key_2
                          /\ st.owner_3 = mv.player_key_3
                       THEN 1 ELSE 0
        current_ships == MoveRegen(st.ship_count, st.max_ship_capacity,
                                   st.ship_gen_speed, mv)
        current_metal == MoveRegen(st.metal_count, st.max_metal_capacity,
                                   st.metal_gen_speed, mv)
        has_ships == IF current_ships >= mv.ships_to_send /\ mv.ships_to_send > 0
                     THEN 1 ELSE 0
        has_metal == IF HasMetal(current_metal, mv.metal_to_send) THEN 1 ELSE 0
        distance == compute_distance(mv.source_x, mv.source_y, mv.target_x, mv.target_y)
        surviving == apply_distance_decay(mv.ships_to_send, distance, st.range)
        ships_survive == IF surviving > 0 THEN 1 ELSE 0
        valid == owner_match * has_ships * has_metal * ships_survive
        landing_slot == compute_landing_slot(mv.current_slot, distance,
                                             st.launch_velocity, mv.game_speed)
        new_ships == MoveDeduct(valid, current_ships, mv.ships_to_send)
        new_metal == MoveDeduct(valid, current_metal, mv.metal_to_send)
    IN  [state |-> [st EXCEPT !.ship_count = new_ships, !.metal_count = new_metal],
         move_data |-> PendingMoveData(valid, surviving, mv),
         revealed |-> [landing_slot |-> IF valid = 1 THEN landing_slot ELSE 0,
                       surviving_ships |-> IF valid = 1 THEN surviving ELSE 0,
                       valid |-> valid]]

\* lazily regenerated count as flush_planet computes it (skipped when unowned)
FlushRegen(owner_exists, last_count, max_capacity, gen_speed, fi) ==
    IF owner_exists = 1
    THEN compute_current_resource(last_count, max_capacity, gen_speed,
                                  fi.last_updated_slot, fi.current_slot, fi.game_speed)
    ELSE last_count

FlushCap_Uncapped(amount, max_capacity) == amount

\* the cap used by the reinforcement and conquest branches of flush_planet
FlushCap(amount, max_capacity) ==
    IF amount > max_capacity THEN max_capacity ELSE amount

\* the owner fields flush_planet leaves alone
KeepOwner(st) ==
    <<st.owner_exists, st.owner_0, st.owner_1, st.owner_2, st.owner_3>>

IsFriendly(st, fi) ==
    /\ fi.move_has_landed = 1
    /\ st.owner_exists = 1
    /\ st.owner_0 = fi.move_attacker_0
    /\ st.owner_1 = fi.move_attacker_1
    /\ st.owner_2 = fi.move_attacker_2
    /\ st.owner_3 = fi.move_attacker_3

Reinforce_ShipsOnly(st, fi, gen_ships, gen_metal) ==
    <<FlushCap(gen_ships + fi.move_ships, st.max_ship_capacity),
      gen_metal, KeepOwner(st)>>

\* "Reinforcement: add ships and metal (capped)"
Reinforce(st, fi, gen_ships, gen_metal) ==
    <<FlushCap(gen_ships + fi.move_ships, st.max_ship_capacity),
      FlushCap(gen_metal + fi.move_metal, st.max_metal_capacity),
      KeepOwner(st)>>

AttackerWins_OnTie(move_ships, gen_ships) == move_ships >= gen_ships

AttackerWins(move_ships, gen_ships) == move_ships > gen_ships

Conquest_KeepsOwner(st, fi, gen_ships) ==
    <<FlushCap(fi.move_ships - gen_ships, st.max_ship_capacity),
      FlushCap(fi.move_metal, st.max_metal_capacity),
      KeepOwner(st)>>

\* "Attacker wins"
Conquest(st, fi, gen_ships) ==
    <<FlushCap(fi.move_ships - gen_ships, st.max_ship_capacity),
      FlushCap(fi.move_metal, st.max_metal_capacity),
      <<1, fi.move_attacker_0, fi.move_attacker_1,
        fi.move_attacker_2, fi.move_attacker_3>>>>

\* a defence that hands the planet over although the attack failed
Repel_Surrenders(st, fi, gen_ships, gen_metal) ==
    <<gen_ships - fi.move_ships, gen_metal,
      <<1, fi.move_attacker_0, fi.move_attacker_1,
        fi.move_attacker_2, fi.move_attacker_3>>>>

\* "Defender wins (or tie = defender wins)"
Repel(st, fi, gen_ships, gen_metal) ==
    <<gen_ships - fi.move_ships, gen_metal, KeepOwner(st)>>

flush_planet(st, fi) ==
    LET gen_ships == FlushRegen(st.owner_exists, st.ship_count,
                                st.max_ship_capacity, st.ship_gen_speed, fi)
        gen_metal == FlushRegen(st.owner_exists, st.metal_count,
                                st.max_metal_capacity, st.metal_gen_speed, fi)
        is_friendly == IF IsFriendly(st, fi) THEN 1 ELSE 0
        \* <<new_ships, new_metal, <<new_owner_exists, new_o0..new_o3>>>>
        r == IF fi.move_has_landed = 0
             THEN <<gen_ships, gen_metal, KeepOwner(st)>>
             ELSE IF is_friendly = 1
             THEN Reinforce(st, fi, gen_ships, gen_metal)
             ELSE IF AttackerWins(fi.move_ships, gen_ships)
             THEN Conquest(st, fi, gen_ships)
             ELSE Repel(st, fi, gen_ships, gen_metal)
    IN  [state |-> [st EXCEPT !.owner_exists = r[3][1],
                              !.owner_0 = r[3][2],
                              !.owner_1 = r[3][3],
                              !.owner_2 = r[3][4],
                              !.owner_3 = r[3][5],
                              !.ship_count = r[1],
                              !.metal_count = r[2]],
         revealed |-> [success |-> 1]]

\* lazily regenerated count as upgrade_planet computes it (no owner test)
UpgradeRegen(last_count, max_capacity, gen_speed, ui) ==
    compute_current_resource(last_count, max_capacity, gen_speed,
                             ui.last_updated_slot, ui.current_slot, ui.game_speed)

UpgradedRange_Unconditional(valid, focus, range) ==
    IF focus = 0 THEN range * 2 ELSE range

\* new_range of upgrade_planet
UpgradedRange(valid, focus, range) ==
    IF valid = 1 /\ focus = 0 THEN range * 2 ELSE range

upgrade_planet(st, ui) ==
    LET owner_match == IF /\ st.owner_exists = 1
                          /\ st.owner_0 = ui.player_key_0
                          /\ st.owner_1 = ui.player_key_1
                          /\ st.owner_2 = ui.player_key_2
                          /\ st.owner_3 = ui.player_key_3
                       THEN 1 ELSE 0
        is_planet == IF st.body_type = 0 THEN 1 ELSE 0
        current_metal == UpgradeRegen(st.metal_count, st.max_metal_capacity,
                                      st.metal_gen_speed, ui)
        current_ships == UpgradeRegen(st.ship_count, st.max_ship_capacity,
                                      st.ship_gen_speed, ui)
        cost == upgrade_cost(st.level)
        can_afford == IF current_metal >= cost THEN 1 ELSE 0
        valid == owner_match * is_planet * can_afford
        new_level == IF valid = 1 THEN (st.level + 1) % 256 ELSE st.level
    IN  [state |-> [st EXCEPT
            !.ship_count = current_ships,
            !.max_ship_capacity = IF valid = 1 THEN st.max_ship_capacity * 2
                                  ELSE st.max_ship_capacity,
            !.ship_gen_speed = IF valid = 1 THEN st.ship_gen_speed * 2
                               ELSE st.ship_gen_speed,
            !.metal_count = IF valid = 1 THEN current_metal - cost ELSE current_metal,
            !.max_metal_capacity = IF valid = 1 THEN st.max_metal_capacity * 2
                                   ELSE st.max_metal_capacity,
            !.range = UpgradedRange(valid, ui.focus, st.range),
            !.launch_velocity = IF valid = 1 /\ ui.focus = 1
                                THEN st.launch_velocity * 2 ELSE st.launch_velocity,
            !.level = new_level],
         revealed |-> [success |-> valid, new_level |-> new_level]]

(***************************************************************************)
(* Ledger: account state of the on-chain program                           *)
(***************************************************************************)
MAX_QUEUED_CALLBACKS == 8
PENDING_MOVES_META_BASE_SIZE == 8 + 8 + 32 + 8 + 2 + 1 + 64 + 4
PENDING_MOVE_ENTRY_SIZE == 16

\* model bounds
NumPlanets == 2
MaxSlot == 3
MaxInFlight == 2
MaxMoveId == 2
TargetPlanet == 1
CapMoves == 9
CapInFlight == 8
NumPlayers == 1
NumSpawnHashes == 1

Planets == 1..NumPlanets
PlayerIds == 1..NumPlayers
SpawnHashes == 1..NumSpawnHashes

\* an address at which no account has been created (or one that was closed)
NoAccount == [exists |-> FALSE]

\* the Game account written by create_game (game_speed > 0, end_slot > start_slot)
GameAccount ==
    [game_id |-> 1, game_speed |-> 1, start_slot |-> 1, end_slot |-> MaxSlot,
     hash_rounds |-> 2]

\* celestial_body and pending_moves as queue_init_planet and
\* init_planet_callback leave them when both run at slot 0
NewBody(planet_hash, slot) ==
    [planet_hash |-> planet_hash,
     last_updated_slot |-> slot,
     last_flushed_slot |-> slot,
     static_enc_nonce |-> 0,
     dynamic_enc_nonce |-> 0]

NewPending(game_id, planet_hash) ==
    [game_id |-> game_id,
     planet_hash |-> planet_hash,
     next_move_id |-> 0,
     move_count |-> 0,
     queued_count |-> 0,
     queued_landing_slots |-> [i \in 0..(MAX_QUEUED_CALLBACKS - 1) |-> 0],
     moves |-> <<>>,
     data_len |-> PENDING_MOVES_META_BASE_SIZE]

LedgerInit ==
    /\ clock = 0
    /\ game = GameAccount
    /\ bodies = [p \in Planets |-> NewBody(p, 0)]
    /\ pendings = [p \in Planets |-> NewPending(GameAccount.game_id, p)]
    /\ move_accounts = <<>>
    /\ computations = EmptyBag
    /\ result = "Ok"
    /\ players = [p \in PlayerIds |-> NoAccount]
    /\ spawn_bodies = <<>>
    /\ spawns = {}

\* the output nonce a callback stores differs from the one it replaces;
\* nonces are kept as the parity of the number of writes
FreshNonce(nonce) == 1 - nonce

\* seeds of the PendingMoveAccount PDA: ["move", game_id, planet_hash, move_id]
MovePda(game_id, planet_hash, move_id) == <<game_id, planet_hash, move_id>>

InsertAt(seq, pos, e) == SubSeq(seq, 1, pos) \o <<e>> \o SubSeq(seq, pos + 1, Len(seq))

\* the Clock sysvar advances
Tick ==
    /\ clock < MaxSlot
    /\ clock' = clock + 1
    /\ UNCHANGED <<game, bodies, pendings, move_accounts, computations, result>>

\* an instruction that returns Err: the transaction is rolled back
Reject(code) ==
    /\ result' = code
    /\ UNCHANGED <<clock, game, bodies, pendings, move_accounts, computations>>

\* a callback that returns Err: nothing is written, the computation is spent
RejectCallback(c, code) ==
    /\ result' = code
    /\ computations' = computations (-) SetToBag({c})
    /\ UNCHANGED <<clock, game, bodies, pendings, move_accounts>>

(***************************************************************************)
(* queue_process_move / process_move_callback                              *)
(***************************************************************************)
\* the source-planet flush check on the source_pending account handed in
MustFlushFirst(source_pending, slot) ==
    /\ source_pending.moves # <<>>
    /\ ~(source_pending.moves[1].landing_slot > slot)

QueueProcessMoveError(source_pending, target_pending, landing_slot, move_cts_len) ==
    IF move_cts_len # 8 * 32 THEN "InvalidMoveInput"
    ELSE IF ~(clock >= game.start_slot) THEN "GameNotStarted"
    ELSE IF ~(clock < game.end_slot) THEN "GameEnded"
    ELSE IF ~(landing_slot > clock) THEN "InvalidMoveInput"
    ELSE IF MustFlushFirst(source_pending, clock) THEN "MustFlushFirst"
    ELSE IF ~(target_pending.queued_count < MAX_QUEUED_CALLBACKS) THEN "TooManyPendingMoves"
    ELSE "Ok"

\* source_body, source_pending and target_pending are whatever accounts the
\* caller passes: the account constraints relate none of them to another
QueueProcessMove(source_body, source_pending, target_pending, landing_slot, move_cts_len, maxInFlight, maxMoveId) ==
    LET tp == pendings[target_pending]
        err == QueueProcessMoveError(pendings[source_pending], tp,
                                     landing_slot, move_cts_len)
        qc == tp.queued_count
        predicted_move_id == tp.next_move_id + qc
        pda == MovePda(tp.game_id, tp.planet_hash, predicted_move_id)
    IN  IF err # "Ok" THEN Reject(err)
        ELSE IF pda \in DOMAIN move_accounts THEN Reject("AccountAlreadyInUse")
        ELSE /\ BagCardinality(computations) < maxInFlight
             /\ predicted_move_id < maxMoveId
             /\ pendings' = [pendings EXCEPT ![target_pending] =
                    [tp EXCEPT !.queued_landing_slots[qc] = landing_slot,
                               !.queued_count = qc + 1,
                               !.data_len = PENDING_MOVES_META_BASE_SIZE
                                   + (Len(tp.moves) + 1) * PENDING_MOVE_ENTRY_SIZE]]
             /\ move_accounts' = move_accounts @@
                    (pda :> [game_id |-> tp.game_id,
                             planet_hash |-> tp.planet_hash,
                             move_id |-> predicted_move_id,
                             enc_written |-> FALSE])
             /\ computations' = computations (+) SetToBag({
                    [ix |-> "process_move", body |-> source_body,
                     pending |-> target_pending, move_account |-> pda]})
             /\ result' = "Ok"
             /\ UNCHANGED <<clock, game, bodies>>

\* queued_landing_slots after the front is popped and the rest shifted left
PopFifo(queued_landing_slots, qc) ==
    [j \in 0..(MAX_QUEUED_CALLBACKS - 1) |->
        IF j < qc - 1 THEN queued_landing_slots[j + 1]
        ELSE IF j = qc - 1 THEN 0
        ELSE queued_landing_slots[j]]

SortedInsertPositions_PushBack(moves, landing_slot) == {Len(moves)}

\* binary_search_by_key(..).unwrap_or_else(|e| e): the index of some entry
\* with that landing_slot if there is one (which one is unspecified), else
\* the insertion point
SortedInsertPositions(moves, landing_slot) ==
    LET matches == {k \in 1..Len(moves) : moves[k].landing_slot = landing_slot}
    IN  IF matches # {}
        THEN {k - 1 : k \in matches}
        ELSE {Cardinality({k \in 1..Len(moves) : moves[k].landing_slot < landing_slot})}

\* bytes the PendingMovesMetadata account needs to hold n entries
PendingSize(n) == PENDING_MOVES_META_BASE_SIZE + n * PENDING_MOVE_ENTRY_SIZE

ProcessMoveCallback(c, verified) ==
    /\ c \in BagToSet(computations)
    /\ c.ix = "process_move"
    /\ LET cb == c.body
           tp == pendings[c.pending]
           landing_slot == tp.queued_landing_slots[0]
           qc == tp.queued_count
           move_id == tp.next_move_id
           entry == [landing_slot |-> landing_slot, move_id |-> move_id]
       IN  IF ~verified THEN RejectCallback(c, "AbortedComputation")
           ELSE IF ~(qc > 0) THEN RejectCallback(c, "InvalidMoveInput")
           ELSE IF PendingSize(Len(tp.moves) + 1) > tp.data_len
                THEN RejectCallback(c, "AccountDidNotSerialize")
           ELSE \E pos \in SortedInsertPositions(tp.moves, landing_slot) :
                /\ bodies' = [bodies EXCEPT ![cb] =
                       [@ EXCEPT !.dynamic_enc_nonce = FreshNonce(@),
                                 !.last_updated_slot = clock]]
                /\ pendings' = [pendings EXCEPT ![c.pending] =
                       [tp EXCEPT !.queued_landing_slots =
                                      PopFifo(tp.queued_landing_slots, qc),
                                  !.queued_count = qc - 1,
                                  !.moves = InsertAt(tp.moves, pos, entry),
                                  !.move_count = Len(tp.moves) + 1,
                                  !.next_move_id = move_id + 1]]
                /\ move_accounts' = [move_accounts EXCEPT
                                       ![c.move_account].enc_written = TRUE]
                /\ computations' = computations (-) SetToBag({c})
                /\ result' = "Ok"
                /\ UNCHANGED <<clock, game>>

(***************************************************************************)
(* queue_flush_planet / flush_planet_callback                              *)
(***************************************************************************)
QueueFlushPlanetError_NoLandedCheck(pending, flush_count, remaining_accounts, flush_cts_len) ==
    IF flush_cts_len # 4 * 32 THEN "FlushFailed"
    ELSE IF flush_count # 1 THEN "FlushFailed"
    ELSE IF ~(Len(remaining_accounts) >= 1) THEN "FlushFailed"
    ELSE IF ~(pending.moves # <<>>) THEN "FlushFailed"
    ELSE IF remaining_accounts[1] #
              MovePda(pending.game_id, pending.planet_hash, pending.moves[1].move_id)
         THEN "FlushFailed"
    ELSE "Ok"

QueueFlushPlanetError(pending, flush_count, remaining_accounts, flush_cts_len) ==
    IF flush_cts_len # 4 * 32 THEN "FlushFailed"
    ELSE IF flush_count # 1 THEN "FlushFailed"
    ELSE IF ~(Len(remaining_accounts) >= 1) THEN "FlushFailed"
    ELSE IF ~(pending.moves # <<>>) THEN "FlushFailed"
    ELSE IF ~(pending.moves[1].landing_slot <= clock) THEN "FlushFailed"
    ELSE IF remaining_accounts[1] #
              MovePda(pending.game_id, pending.planet_hash, pending.moves[1].move_id)
         THEN "FlushFailed"
    ELSE "Ok"

QueueFlushPlanet(celestial_body, pending_moves, flush_count, remaining_accounts, flush_cts_len, maxInFlight) ==
    LET pending == pendings[pending_moves]
        err == QueueFlushPlanetError(pending, flush_count, remaining_accounts,
                                     flush_cts_len)
    IN  IF err # "Ok" THEN Reject(err)
        ELSE /\ BagCardinality(computations) < maxInFlight
             /\ computations' = computations (+) SetToBag({
                    [ix |-> "flush_planet", body |-> celestial_body,
                     pending |-> pending_moves,
                     move_account |-> remaining_accounts[1]]})
             /\ result' = "Ok"
             /\ UNCHANGED <<clock, game, bodies, pendings, move_accounts>>

\* the removal at the end of flush_planet_callback
RemoveFlushed(moves, slot) ==
    IF moves # <<>> /\ moves[1].landing_slot <= slot THEN Tail(moves) ELSE moves

FlushPlanetCallback(c, verified) ==
    /\ c \in BagToSet(computations)
    /\ c.ix = "flush_planet"
    /\ LET cb == c.body
           pending == pendings[c.pending]
           moves == RemoveFlushed(pending.moves, clock)
       IN  IF ~verified THEN RejectCallback(c, "AbortedComputation")
           ELSE /\ bodies' = [bodies EXCEPT ![cb] =
                       [@ EXCEPT !.dynamic_enc_nonce = FreshNonce(@),
                                 !.last_updated_slot = clock,
                                 !.last_flushed_slot = clock]]
                /\ pendings' = [pendings EXCEPT ![c.pending] =
                       [pending EXCEPT !.moves = moves,
                                       !.move_count = Len(moves)]]
                /\ computations' = computations (-) SetToBag({c})
                /\ result' = "Ok"
                /\ UNCHANGED <<clock, game, move_accounts>>

(***************************************************************************)
(* queue_upgrade_planet / upgrade_planet_callback                          *)
(***************************************************************************)
QueueUpgradePlanetError(upgrade_cts_len) ==
    IF upgrade_cts_len # 6 * 32 THEN "UpgradeFailed"
    ELSE IF ~(clock >= game.start_slot) THEN "GameNotStarted"
    ELSE IF ~(clock < game.end_slot) THEN "GameEnded"
    ELSE "Ok"

QueueUpgradePlanet(celestial_body, upgrade_cts_len, maxInFlight) ==
    LET err == QueueUpgradePlanetError(upgrade_cts_len)
    IN  IF err # "Ok" THEN Reject(err)
        ELSE /\ BagCardinality(computations) < maxInFlight
             /\ computations' = computations (+) SetToBag({
                    [ix |-> "upgrade_planet", body |-> celestial_body,
                     pending |-> celestial_body,
                     move_account |-> <<>>]})
             /\ result' = "Ok"
             /\ UNCHANGED <<clock, game, bodies, pendings, move_accounts>>

UpgradePlanetCallback(c, verified) ==
    /\ c \in BagToSet(computations)
    /\ c.ix = "upgrade_planet"
    /\ LET cb == c.body
       IN  IF ~verified THEN RejectCallback(c, "AbortedComputation")
           ELSE /\ bodies' = [bodies EXCEPT ![cb] =
                       [@ EXCEPT !.static_enc_nonce = FreshNonce(@),
                                 !.dynamic_enc_nonce = FreshNonce(@),
                                 !.last_updated_slot = clock]]
                /\ computations' = computations (-) SetToBag({c})
                /\ result' = "Ok"
                /\ UNCHANGED <<clock, game, pendings, move_accounts>>

(***************************************************************************)
(* Ledger specification: shipments to and from planet TargetPlanet, with   *)
(* any planet's pending account passed as source_pending, flushes of any   *)
(* planet, upgrades, and callbacks (verified or aborted) in any order      *)
(***************************************************************************)
LandingSlots == 0..MaxSlot

\* what a caller can pass as remaining_accounts to queue_flush_planet:
\* nothing, or any move account that exists
RemainingAccounts == {<<>>} \cup {<<pda>> : pda \in DOMAIN move_accounts}

\* <<source_pending, landing_slot, move_cts length>>: well-formed requests
\* with any pending account and landing slot, and one with no ciphertexts
ProcessMoveRequests ==
    {<<sp, ls, 8 * 32>> : sp \in Planets, ls \in LandingSlots}
        \cup {<<TargetPlanet, MaxSlot, 0>>}

\* <<planet, flush_count, remaining_accounts, flush_cts length>>: well-formed
\* requests for any planet and move account, and requests on the target
\* planet with a wrong flush_count or no ciphertexts
FlushPlanetRequests ==
    {<<pm, 1, ra, 4 * 32>> : pm \in Planets, ra \in RemainingAccounts}
        \cup {<<TargetPlanet, 0, ra, 4 * 32>> : ra \in RemainingAccounts}
        \cup {<<TargetPlanet, 1, ra, 0>> : ra \in RemainingAccounts}

DoQueueProcessMove ==
    /\ \E req \in ProcessMoveRequests :
           QueueProcessMove(TargetPlanet, req[1], TargetPlanet, req[2], req[3],
                            MaxInFlight, MaxMoveId)
    /\ UNCHANGED <<circuitVars, spawnVars>>

DoQueueFlushPlanet ==
    /\ \E req \in FlushPlanetRequests :
           QueueFlushPlanet(req[1], req[1], req[2], req[3], req[4], MaxInFlight)
    /\ UNCHANGED <<circuitVars, spawnVars>>

DoQueueUpgradePlanet ==
    /\ \E len \in {6 * 32, 0} :
           QueueUpgradePlanet(TargetPlanet, len, MaxInFlight)
    /\ UNCHANGED <<circuitVars, spawnVars>>

DoProcessMoveCallback ==
    /\ \E c \in BagToSet(computations), verified \in BOOLEAN :
           ProcessMoveCallback(c, verified)
    /\ UNCHANGED <<circuitVars, spawnVars>>

DoFlushPlanetCallback ==
    /\ \E c \in BagToSet(computations), verified \in BOOLEAN :
           FlushPlanetCallback(c, verified)
    /\ UNCHANGED <<circuitVars, spawnVars>>

DoUpgradePlanetCallback ==
    /\ \E c \in BagToSet(computations), verified \in BOOLEAN :
           UpgradePlanetCallback(c, verified)
    /\ UNCHANGED <<circuitVars, spawnVars>>

DoTick == Tick /\ UNCHANGED <<circuitVars, spawnVars>>

(***************************************************************************)
(* Circuit state machine: a planet produced by init_planet or              *)
(* init_spawn_planet, then any sequence of process_move, flush_planet and  *)
(* upgrade_planet applications.                                            *)
(***************************************************************************)
\* player keys as four u64 limbs; the two differ in the last limb only
PlayerKeys == {<<11, 22, 33, 44>>, <<11, 22, 33, 45>>}

Thresholds ==
    [dead_space_threshold |-> 10, planet_threshold |-> 100,
     quasar_threshold |-> 150, spacetime_rip_threshold |-> 200,
     size_threshold_1 |-> 50, size_threshold_2 |-> 100, size_threshold_3 |-> 150,
     size_threshold_4 |-> 200, size_threshold_5 |-> 250]

\* x coordinates (i64 cast to u64, as base-256 digits) whose h0 bytes give:
\*   a size-1 Planet, dead space, a size-1 SpacetimeRip, a size-1
\*   AsteroidBelt, a size-2 Planet with two comets
InitXs ==
    { <<1, 0, 0, 0, 0, 0, 0, 0>>,
      <<7, 0, 0, 0, 0, 0, 0, 0>>,
      <<190, 87, 74, 41, 165, 148, 82, 74>>,
      <<190, 155, 8, 33, 132, 16, 66, 8>>,
      <<190, 99, 208, 255, 24, 215, 90, 107>> }

InitPlanetInputs ==
    { [x |-> x, y |-> W64(0), game_id |-> W64(1),
       dead_space_threshold |-> Thresholds.dead_space_threshold,
       planet_threshold |-> Thresholds.planet_threshold,
       quasar_threshold |-> Thresholds.quasar_threshold,
       spacetime_rip_threshold |-> Thresholds.spacetime_rip_threshold,
       size_threshold_1 |-> Thresholds.size_threshold_1,
       size_threshold_2 |-> Thresholds.size_threshold_2,
       size_threshold_3 |-> Thresholds.size_threshold_3,
       size_threshold_4 |-> Thresholds.size_threshold_4,
       size_threshold_5 |-> Thresholds.size_threshold_5] : x \in InitXs }

InitSpawnPlanetInputs ==
    { [x |-> i.x, y |-> i.y, game_id |-> i.game_id,
       dead_space_threshold |-> i.dead_space_threshold,
       planet_threshold |-> i.planet_threshold,
       quasar_threshold |-> i.quasar_threshold,
       spacetime_rip_threshold |-> i.spacetime_rip_threshold,
       size_threshold_1 |-> i.size_threshold_1,
       size_threshold_2 |-> i.size_threshold_2,
       size_threshold_3 |-> i.size_threshold_3,
       size_threshold_4 |-> i.size_threshold_4,
       size_threshold_5 |-> i.size_threshold_5,
       player_key_0 |-> k[1], player_key_1 |-> k[2],
       player_key_2 |-> k[3], player_key_3 |-> k[4]]
      : i \in InitPlanetInputs, k \in PlayerKeys }

\* <<current_slot, last_updated_slot, game_speed>>
Timings == { <<0, 0, 1>>, <<10, 0, 1>>, <<10, 0, 0>>, <<3, 10, 1>> }

\* no slot elapsed, ten slots elapsed
MainTimings == { <<0, 0, 1>>, <<10, 0, 1>> }

\* <<ships_to_send, metal_to_send>>
SendAmounts == { <<0, 0>>, <<5, 0>>, <<5, 5>> }

\* <<target_x, target_y>> from source (0, 0): distances 0, 8 and 40 + 10/2 = 45
Targets == { <<0, 0>>, <<8, 0>>, <<40, 10>> }

\* every request under the main timings; under the other timings (speed 0,
\* clock behind last_updated_slot) one request per kind
ProcessMoveInputs ==
    { [player_key_0 |-> k[1], player_key_1 |-> k[2],
       player_key_2 |-> k[3], player_key_3 |-> k[4],
       ships_to_send |-> a[1], metal_to_send |-> a[2],
       source_x |-> 0, source_y |-> 0, target_x |-> t[1], target_y |-> t[2],
       current_slot |-> tm[1], game_speed |-> tm[3], last_updated_slot |-> tm[2]]
      : <<k, a, t, tm>> \in
            { q \in PlayerKeys \X SendAmounts \X Targets \X Timings :
                q[4] \in MainTimings \/ (q[1][4] = 44 /\ q[3] = <<0, 0>>) } }

\* <<move_ships, move_metal, move_has_landed>>
Landings == { <<0, 0, 0>>, <<5, 5, 1>>, <<1000, 1000, 1>>, <<15, 0, 1>> }

FlushPlanetInputs ==
    { [current_slot |-> tm[1], game_speed |-> tm[3], last_updated_slot |-> tm[2],
       move_ships |-> l[1], move_metal |-> l[2],
       move_attacker_0 |-> k[1], move_attacker_1 |-> k[2],
       move_attacker_2 |-> k[3], move_attacker_3 |-> k[4],
       move_has_landed |-> l[3]]
      : <<tm, l, k>> \in
            { q \in Timings \X Landings \X PlayerKeys :
                q[1] \in MainTimings \/ (q[3][4] = 45 /\ q[2] = <<5, 5, 1>>) } }

UpgradePlanetInputs ==
    { [player_key_0 |-> k[1], player_key_1 |-> k[2],
       player_key_2 |-> k[3], player_key_3 |-> k[4],
       focus |-> f,
       current_slot |-> tm[1], game_speed |-> tm[3], last_updated_slot |-> tm[2]]
      : <<k, f, tm>> \in
            { q \in PlayerKeys \X {0, 1} \X Timings :
                q[3] \in MainTimings \/ (q[1][4] = 44 /\ q[2] = 0) } }

\* did an application raise one of the two resource counters
Grew(pre, post) ==
    post.ship_count > pre.ship_count \/ post.metal_count > pre.metal_count

CircuitInit ==
    /\ LedgerInit
    /\ \/ \E inp \in InitPlanetInputs :
            /\ state = init_planet(inp).state
            /\ last = [ix |-> "init_planet",
                       valid |-> init_planet(inp).revealed.valid,
                       grew |-> FALSE]
       \/ \E inp \in InitSpawnPlanetInputs :
            /\ state = init_spawn_planet(inp).state
            /\ last = [ix |-> "init_spawn_planet",
                       valid |-> init_spawn_planet(inp).revealed.is_spawn_valid,
                       grew |-> FALSE]

ApplyProcessMove ==
    \E mv \in ProcessMoveInputs :
        LET out == process_move(state, mv)
        IN  /\ state' = out.state
            /\ last' = [ix |-> "process_move",
                        valid |-> out.revealed.valid,
                        grew |-> Grew(state, out.state)]
            /\ UNCHANGED <<ledgerVars, spawnVars>>

ApplyFlushPlanet ==
    \E fi \in FlushPlanetInputs :
        LET out == flush_planet(state, fi)
        IN  /\ state' = out.state
            /\ last' = [ix |-> "flush_planet",
                        valid |-> fi.move_has_landed,
                        grew |-> Grew(state, out.state)]
            /\ UNCHANGED <<ledgerVars, spawnVars>>

ApplyUpgradePlanet ==
    \E ui \in UpgradePlanetInputs :
        LET out == upgrade_planet(state, ui)
        IN  /\ state' = out.state
            /\ last' = [ix |-> "upgrade_planet",
                        valid |-> out.revealed.success,
                        grew |-> Grew(state, out.state)]
            /\ UNCHANGED <<ledgerVars, spawnVars>>

CircuitNext == ApplyProcessMove \/ ApplyFlushPlanet \/ ApplyUpgradePlanet

SpecCircuit == CircuitInit /\ [][CircuitNext]_vars

\* every circuit keeps being applied: a client can always submit a request
SpecCircuitLive ==
    /\ SpecCircuit
    /\ WF_vars(ApplyProcessMove)
    /\ WF_vars(ApplyFlushPlanet)
    /\ WF_vars(ApplyUpgradePlanet)

\* the circuit variables are idle under the ledger specifications
CircuitIdle ==
    /\ state = init_planet(CHOOSE inp \in InitPlanetInputs : TRUE).state
    /\ last = [ix |-> "init_planet", valid |-> 1, grew |-> FALSE]

Init == LedgerInit /\ CircuitIdle

Next ==
    \/ DoTick
    \/ DoQueueProcessMove
    \/ DoProcessMoveCallback
    \/ DoQueueFlushPlanet
    \/ DoFlushPlanetCallback
    \/ DoQueueUpgradePlanet
    \/ DoUpgradePlanetCallback

Spec == Init /\ [][Next]_vars

\* the shipment life cycle alone: moves and flushes, no upgrades
MovesNext ==
    \/ DoTick
    \/ DoQueueProcessMove
    \/ DoProcessMoveCallback
    \/ DoQueueFlushPlanet
    \/ DoFlushPlanetCallback

SpecMoves == Init /\ [][MovesNext]_vars

(***************************************************************************)
(* Capacity specification: one planet receives CapMoves shipments, each    *)
(* with its own landing slot, and none of them is flushed                  *)
(***************************************************************************)
CapacityInit ==
    /\ LedgerInit
    /\ CircuitIdle

DoCapacityTick == Tick /\ UNCHANGED <<circuitVars, spawnVars>>

DoCapacityQueueProcessMove ==
    /\ \E len \in {8 * 32, 0} :
           QueueProcessMove(TargetPlanet, TargetPlanet, TargetPlanet,
                            MaxSlot + 1 + pendings[TargetPlanet].next_move_id
                                        + pendings[TargetPlanet].queued_count,
                            len, CapInFlight, CapMoves)
    /\ UNCHANGED <<circuitVars, spawnVars>>

DoCapacityProcessMoveCallback ==
    /\ \E c \in BagToSet(computations) :
           /\ \A d \in BagToSet(computations) : c.move_account[3] <= d.move_account[3]
           /\ ProcessMoveCallback(c, TRUE)
    /\ UNCHANGED <<circuitVars, spawnVars>>

CapacityNext ==
    \/ DoCapacityTick
    \/ DoCapacityQueueProcessMove
    \/ DoCapacityProcessMoveCallback

SpecCapacity == CapacityInit /\ [][CapacityNext]_vars

(***************************************************************************)
(* Dispatch specification: the source planet is spawned and owned; every   *)
(* verified process_move callback carries the output of the process_move   *)
(* circuit on the planet state (state, last record what the cluster        *)
(* computed), an aborted one carries nothing                               *)
(***************************************************************************)
DispatchInit ==
    /\ LedgerInit
    /\ \E inp \in InitSpawnPlanetInputs :
           /\ init_spawn_planet(inp).revealed.is_spawn_valid = 1
           /\ state = init_spawn_planet(inp).state
           /\ last = [ix |-> "init_spawn_planet", valid |-> 1, grew |-> FALSE]

DispatchProcessMove ==
    \E c \in BagToSet(computations), mv \in ProcessMoveInputs :
        LET out == process_move(state, mv)
        IN  /\ ProcessMoveCallback(c, TRUE)
            /\ IF result' = "Ok"
               THEN /\ state' = out.state
                    /\ last' = [ix |-> "process_move",
                                valid |-> out.revealed.valid,
                                grew |-> Grew(state, out.state),
                                landing_slot |-> out.revealed.landing_slot]
               ELSE UNCHANGED circuitVars
            /\ UNCHANGED spawnVars

AbortProcessMove ==
    /\ \E c \in BagToSet(computations) : ProcessMoveCallback(c, FALSE)
    /\ UNCHANGED <<circuitVars, spawnVars>>

DispatchNext ==
    \/ DoTick
    \/ DoQueueProcessMove
    \/ DispatchProcessMove
    \/ AbortProcessMove

SpecDispatch == DispatchInit /\ [][DispatchNext]_vars

(***************************************************************************)
(* Spawn specification: init_player, queue_init_spawn_planet and its       *)
(* callback (which stores the output of the init_spawn_planet circuit),    *)
(* cleanup_player after the game has ended                                 *)
(***************************************************************************)
SpawnReject(code) == Reject(code) /\ UNCHANGED <<circuitVars, spawnVars>>

\* the clock may pass end_slot, so that cleanup becomes possible
SpawnTick ==
    /\ clock < MaxSlot + 1
    /\ clock' = clock + 1
    /\ UNCHANGED <<game, bodies, pendings, move_accounts, computations, result>>
    /\ UNCHANGED <<circuitVars, spawnVars>>

NewPlayer_Spawned(owner) ==
    [exists |-> TRUE, owner |-> owner, game_id |-> game.game_id,
     points |-> 0, has_spawned |-> TRUE]

NewPlayer(owner) ==
    [exists |-> TRUE, owner |-> owner, game_id |-> game.game_id,
     points |-> 0, has_spawned |-> FALSE]

InitPlayer(owner) ==
    IF players[owner].exists THEN SpawnReject("AccountAlreadyInUse")
    ELSE /\ players' = [players EXCEPT ![owner] = NewPlayer(owner)]
         /\ result' = "Ok"
         /\ UNCHANGED <<clock, game, bodies, pendings, move_accounts, computations>>
         /\ UNCHANGED <<circuitVars, spawn_bodies, spawns>>

QueueInitSpawnPlanetError(payer, planet_hash, ciphertexts_len) ==
    IF ~players[payer].exists THEN "AccountNotInitialized"
    ELSE IF planet_hash \in DOMAIN spawn_bodies THEN "AccountAlreadyInUse"
    ELSE IF ciphertexts_len # 4 * 32 THEN "InvalidSpawnValidation"
    ELSE IF ~(~players[payer].has_spawned) THEN "AlreadySpawned"
    ELSE IF ~(clock >= game.start_slot) THEN "GameNotStarted"
    ELSE IF ~(clock < game.end_slot) THEN "GameEnded"
    ELSE "Ok"

QueueInitSpawnPlanet(payer, planet_hash, ciphertexts_len, maxInFlight) ==
    LET err == QueueInitSpawnPlanetError(payer, planet_hash, ciphertexts_len)
    IN  IF err # "Ok" THEN SpawnReject(err)
        ELSE /\ Cardinality(spawns) < maxInFlight
             /\ spawn_bodies' = spawn_bodies @@
                    (planet_hash :> [planet_hash |-> planet_hash,
                                     last_updated_slot |-> clock,
                                     last_flushed_slot |-> clock,
                                     written |-> FALSE,
                                     enc_source |-> <<>>,
                                     pending |-> NewPending(game.game_id, planet_hash)])
             /\ spawns' = spawns \cup {[player |-> payer, body |-> planet_hash]}
             /\ result' = "Ok"
             /\ UNCHANGED <<clock, game, bodies, pendings, move_accounts, computations>>
             /\ UNCHANGED <<circuitVars, players>>

\* inp is the request the cluster decrypted; out is what the circuit made of
\* it; enc_source records the coordinates the stored ciphertexts encrypt the
\* planet of
InitSpawnPlanetCallback(c, verified, inp) ==
    /\ c \in spawns
    /\ spawns' = spawns \ {c}
    /\ UNCHANGED <<clock, game, bodies, pendings, move_accounts, computations>>
    /\ LET out == init_spawn_planet(inp)
       IN  IF ~verified
           THEN /\ result' = "AbortedComputation"
                /\ UNCHANGED <<circuitVars, players, spawn_bodies>>
           ELSE IF ~players[c.player].exists \/ c.body \notin DOMAIN spawn_bodies
           THEN /\ result' = "AccountNotInitialized"
                /\ UNCHANGED <<circuitVars, players, spawn_bodies>>
           ELSE /\ spawn_bodies' = [spawn_bodies EXCEPT ![c.body] =
                       [@ EXCEPT !.written = TRUE, !.last_updated_slot = clock,
                                 !.enc_source = <<inp.x, inp.y>>]]
                /\ players' = [players EXCEPT ![c.player].has_spawned = TRUE]
                /\ state' = out.state
                /\ last' = [ix |-> "init_spawn_planet",
                            valid |-> out.revealed.is_spawn_valid,
                            grew |-> FALSE]
                /\ result' = "Ok"

CleanupPlayer(owner) ==
    IF ~players[owner].exists THEN SpawnReject("AccountNotInitialized")
    ELSE IF ~(clock > game.end_slot) THEN SpawnReject("GameNotEnded")
    ELSE /\ players' = [players EXCEPT ![owner] = NoAccount]
         /\ result' = "Ok"
         /\ UNCHANGED <<clock, game, bodies, pendings, move_accounts, computations>>
         /\ UNCHANGED <<circuitVars, spawn_bodies, spawns>>

DoInitPlayer == \E owner \in PlayerIds : InitPlayer(owner)

DoQueueInitSpawnPlanet ==
    \E payer \in PlayerIds, planet_hash \in SpawnHashes, len \in {4 * 32, 0} :
        QueueInitSpawnPlanet(payer, planet_hash, len, MaxInFlight)

\* what the payer encrypted: a size-1 Planet or dead space, under one key
SpawnRequests ==
    { inp \in InitSpawnPlanetInputs :
        /\ inp.x \in {W64(1), W64(7)}
        /\ inp.player_key_3 = 44 }

DoInitSpawnPlanetCallback ==
    \E c \in spawns, verified \in BOOLEAN, inp \in SpawnRequests :
        InitSpawnPlanetCallback(c, verified, inp)

DoCleanupPlayer == \E owner \in PlayerIds : CleanupPlayer(owner)

SpawnNext ==
    \/ SpawnTick
    \/ DoInitPlayer
    \/ DoQueueInitSpawnPlanet
    \/ DoInitSpawnPlanetCallback
    \/ DoCleanupPlayer

SpecSpawn == Init /\ [][SpawnNext]_vars

(***************************************************************************)
(* Creation specification: queue_init_planet and its callback, spawn       *)
(* requests for the same planet accounts, cleanup_planet after the game    *)
(* has ended.  spawn_bodies holds the celestial_body account of a planet   *)
(* hash together with the pending_moves account created with it.           *)
(***************************************************************************)
HashSpace == 251

\* blake3 over a byte string, stood in for by a polynomial digest
RECURSIVE Blake3(_)
Blake3(bytes) ==
    IF bytes = <<>> THEN 7
    ELSE (Blake3(SubSeq(bytes, 1, Len(bytes) - 1)) * 31 + bytes[Len(bytes)] + Len(bytes)) % HashSpace

RECURSIVE Rehash(_, _)
Rehash(hash, rounds) ==
    IF rounds <= 0 THEN hash ELSE Rehash(Blake3(<<hash>>), rounds - 1)

\* x, y and game_id as their eight little-endian bytes
compute_planet_hash(x, y, game_id, hash_rounds) ==
    Rehash(Blake3(x \o y \o game_id), hash_rounds - 1)

\* the coordinates a client explores: a size-1 Planet and dead space
CreateInputs == { inp \in InitPlanetInputs : inp.x \in {W64(1), W64(7)} }

CreateSpawnInputs == { inp \in SpawnRequests : inp.x \in {W64(1), W64(7)} }

\* the planet hashes of those coordinates; a request carries any of them
CreateHashes ==
    { compute_planet_hash(inp.x, inp.y, W64(GameAccount.game_id), GameAccount.hash_rounds)
      : inp \in CreateInputs }

WithAccount(accounts, key, account) ==
    [k \in DOMAIN accounts \cup {key} |-> IF k = key THEN account ELSE accounts[k]]

\* a creation request that Anchor's init constraint does not stop
QueueInitPlanetError_Reinit(planet_hash, ciphertexts_len) ==
    IF ciphertexts_len # 2 * 32 THEN "InvalidInitPlanet"
    ELSE IF ~(clock < game.end_slot) THEN "GameEnded"
    ELSE "Ok"

QueueInitPlanetError(planet_hash, ciphertexts_len) ==
    IF planet_hash \in DOMAIN spawn_bodies THEN "AccountAlreadyInUse"
    ELSE IF ciphertexts_len # 2 * 32 THEN "InvalidInitPlanet"
    ELSE IF ~(clock < game.end_slot) THEN "GameEnded"
    ELSE "Ok"

QueueInitPlanet(planet_hash, ciphertexts_len, maxInFlight) ==
    LET err == QueueInitPlanetError(planet_hash, ciphertexts_len)
    IN  IF err # "Ok" THEN SpawnReject(err)
        ELSE /\ BagCardinality(computations) < maxInFlight
             /\ spawn_bodies' = WithAccount(spawn_bodies, planet_hash,
                    [planet_hash |-> planet_hash,
                     last_updated_slot |-> clock,
                     last_flushed_slot |-> clock,
                     written |-> FALSE,
                     enc_source |-> <<>>,
                     pending |-> NewPending(game.game_id, planet_hash)])
             /\ computations' = computations (+) SetToBag({
                    [ix |-> "init_planet", body |-> planet_hash,
                     pending |-> planet_hash, move_account |-> <<>>]})
             /\ result' = "Ok"
             /\ UNCHANGED <<clock, game, bodies, pendings, move_accounts>>
             /\ UNCHANGED <<circuitVars, players, spawns>>

InitPlanetCallback(c, verified, inp) ==
    /\ c \in BagToSet(computations)
    /\ c.ix = "init_planet"
    /\ computations' = computations (-) SetToBag({c})
    /\ UNCHANGED <<clock, game, bodies, pendings, move_accounts, players, spawns>>
    /\ LET out == init_planet(inp)
       IN  IF ~verified
           THEN /\ result' = "AbortedComputation"
                /\ UNCHANGED <<circuitVars, spawn_bodies>>
           ELSE IF c.body \notin DOMAIN spawn_bodies
           THEN /\ result' = "AccountNotInitialized"
                /\ UNCHANGED <<circuitVars, spawn_bodies>>
           ELSE /\ spawn_bodies' = [spawn_bodies EXCEPT ![c.body] =
                       [@ EXCEPT !.written = TRUE, !.last_updated_slot = clock,
                                 !.enc_source = <<inp.x, inp.y>>]]
                /\ state' = out.state
                /\ last' = [ix |-> "init_planet", valid |-> out.revealed.valid,
                            grew |-> FALSE]
                /\ result' = "Ok"

\* close = closer on celestial_body and pending_moves
CleanupPlanet(planet_hash) ==
    IF planet_hash \notin DOMAIN spawn_bodies THEN SpawnReject("AccountNotInitialized")
    ELSE IF ~(clock > game.end_slot) THEN SpawnReject("GameNotEnded")
    ELSE /\ spawn_bodies' = [k \in DOMAIN spawn_bodies \ {planet_hash} |-> spawn_bodies[k]]
         /\ result' = "Ok"
         /\ UNCHANGED <<clock, game, bodies, pendings, move_accounts, computations>>
         /\ UNCHANGED <<circuitVars, players, spawns>>

DoQueueInitPlanet ==
    \E planet_hash \in CreateHashes, len \in {2 * 32, 0} :
        QueueInitPlanet(planet_hash, len, MaxInFlight)

DoInitPlanetCallback ==
    \E c \in BagToSet(computations), verified \in BOOLEAN, inp \in CreateInputs :
        InitPlanetCallback(c, verified, inp)

DoCreateQueueInitSpawnPlanet ==
    \E payer \in PlayerIds, planet_hash \in CreateHashes :
        QueueInitSpawnPlanet(payer, planet_hash, 4 * 32, MaxInFlight)

DoCreateInitSpawnPlanetCallback ==
    \E c \in spawns, inp \in CreateSpawnInputs :
        InitSpawnPlanetCallback(c, TRUE, inp)

DoCleanupPlanet == \E planet_hash \in CreateHashes : CleanupPlanet(planet_hash)

CreateNext ==
    \/ SpawnTick
    \/ DoInitPlayer
    \/ DoQueueInitPlanet
    \/ DoInitPlanetCallback
    \/ DoCreateQueueInitSpawnPlanet
    \/ DoCreateInitSpawnPlanetCallback
    \/ DoCleanupPlanet

SpecCreate == Init /\ [][CreateNext]_vars

(***************************************************************************)
(* Broadcast specification: broadcast next to planet creation.  A          *)
(* successful broadcast leaves its BroadcastEvent in last.                 *)
(***************************************************************************)
CreateCoordinates == { <<inp.x, inp.y>> : inp \in CreateInputs }

\* compute_planet_hash of the explored coordinates under the Game account
PlanetHashOf ==
    [g \in {GameAccount}, c \in CreateCoordinates |->
        compute_planet_hash(c[1], c[2], W64(g.game_id), g.hash_rounds)]

\* a broadcast that publishes whatever it is given
BroadcastError_Unchecked(x, y, planet_hash) == "Ok"

BroadcastError(x, y, planet_hash) ==
    IF PlanetHashOf[game, <<x, y>>] # planet_hash
    THEN "InvalidPlanetHash"
    ELSE "Ok"

Broadcast(x, y, planet_hash) ==
    LET err == BroadcastError(x, y, planet_hash)
    IN  IF err # "Ok" THEN SpawnReject(err)
        ELSE /\ last' = [ix |-> "broadcast", valid |-> 1, grew |-> FALSE,
                         event |-> [x |-> x, y |-> y, game_id |-> game.game_id,
                                    planet_hash |-> planet_hash]]
             /\ result' = "Ok"
             /\ UNCHANGED <<clock, game, bodies, pendings, move_accounts, computations>>
             /\ UNCHANGED <<state, spawnVars>>

\* <<x, y, planet_hash>>: the explored coordinates with each of their hashes
\* and with a hash of neither
BroadcastRequests ==
    { <<inp.x, inp.y, h>> : inp \in CreateInputs, h \in CreateHashes \cup {0} }

DoBroadcast == \E req \in BroadcastRequests : Broadcast(req[1], req[2], req[3])

BroadcastNext ==
    \/ SpawnTick
    \/ DoQueueInitPlanet
    \/ DoInitPlanetCallback
    \/ DoBroadcast

SpecBroadcast == Init /\ [][BroadcastNext]_vars

(***************************************************************************)
(* Upgrade specification: upgrade_planet applied to Planets that hold      *)
(* metal and to AsteroidBelts, at levels 1, 2, 9 and 10, owned or not,     *)
(* with focus bytes 0, 1 and 2                                             *)
(***************************************************************************)
\* <<level, metal_count>>: metal for no upgrade, for one (cost 200, 400,
\* 51200) and for three in a row (200 + 400 + 800)
UpgradeFunds ==
    { <<1, 0>>, <<1, 200>>, <<1, 1400>>, <<2, 400>>, <<9, 51200>>, <<10, 51200>> }

\* a Planet generates no metal (base_stats), an AsteroidBelt does
UpgradeStates ==
    { [body_type |-> b, size |-> 1, owner_exists |-> oe,
       owner_0 |-> 11 * oe, owner_1 |-> 22 * oe, owner_2 |-> 33 * oe,
       owner_3 |-> 44 * oe,
       ship_count |-> 190, max_ship_capacity |-> 200, ship_gen_speed |-> 1,
       metal_count |-> IF b = 0 THEN lm[2] ELSE 0,
       max_metal_capacity |-> IF b = 0 THEN 60000 ELSE 200,
       metal_gen_speed |-> IF b = 0 THEN 0 ELSE 2,
       range |-> 4, launch_velocity |-> 2, level |-> lm[1],
       comet_count |-> 0, comet_0 |-> 255, comet_1 |-> 255]
      : b \in {0, 3}, oe \in {0, 1}, lm \in UpgradeFunds }

\* focus is a u8: 0 = Range, 1 = LaunchVelocity, and any other byte
UpgradeRequests ==
    { [player_key_0 |-> k[1], player_key_1 |-> k[2],
       player_key_2 |-> k[3], player_key_3 |-> k[4],
       focus |-> f,
       current_slot |-> tm[1], game_speed |-> tm[3], last_updated_slot |-> tm[2]]
      : k \in PlayerKeys, f \in {0, 1, 2}, tm \in MainTimings }

UpgradeInit ==
    /\ LedgerInit
    /\ state \in UpgradeStates
    /\ last = [ix |-> "init_planet", valid |-> 1, grew |-> FALSE]

ApplyUpgradeRequest ==
    \E ui \in UpgradeRequests :
        LET out == upgrade_planet(state, ui)
        IN  /\ state' = out.state
            /\ last' = [ix |-> "upgrade_planet",
                        valid |-> out.revealed.success,
                        grew |-> Grew(state, out.state)]
            /\ UNCHANGED <<ledgerVars, spawnVars>>

SpecUpgrade == UpgradeInit /\ [][ApplyUpgradeRequest]_vars

(***************************************************************************)
(* Launch specification: process_move applied to owned planets of several  *)
(* launch velocities and ranges; last keeps what the move was computed     *)
(* from and the landing slot it revealed                                   *)
(***************************************************************************)
LaunchVelocities == {0, 1, 2, 3, 4, 8}

\* the second range lets a fleet survive a distance of two billion
LaunchRanges == {4, 2000000000}

LaunchStates ==
    { [body_type |-> 0, size |-> 1, owner_exists |-> 1,
       owner_0 |-> 11, owner_1 |-> 22, owner_2 |-> 33, owner_3 |-> 44,
       ship_count |-> 40, max_ship_capacity |-> 100, ship_gen_speed |-> 1,
       metal_count |-> 0, max_metal_capacity |-> 0, metal_gen_speed |-> 0,
       range |-> r, launch_velocity |-> v, level |-> 1,
       comet_count |-> 0, comet_0 |-> 255, comet_1 |-> 255]
      : r \in LaunchRanges, v \in LaunchVelocities }

\* <<target_x, current_slot, game_speed>> from source (0, 0)
LaunchRoutes ==
    { <<0, 0, 1>>, <<8, 0, 1>>, <<8, 10, 2>>, <<9, 0, 1>>, <<30, 10, 1>>,
      <<2000000000, 10, 1>> }

LaunchRequests ==
    { [player_key_0 |-> 11, player_key_1 |-> 22, player_key_2 |-> 33,
       player_key_3 |-> 44, ships_to_send |-> 10, metal_to_send |-> 0,
       source_x |-> 0, source_y |-> 0, target_x |-> rt[1], target_y |-> 0,
       current_slot |-> rt[2], game_speed |-> rt[3],
       last_updated_slot |-> rt[2]] : rt \in LaunchRoutes }

LaunchInit ==
    /\ LedgerInit
    /\ state \in LaunchStates
    /\ last = [ix |-> "init_spawn_planet", valid |-> 1, grew |-> FALSE]

ApplyLaunch ==
    \E mv \in LaunchRequests :
        LET out == process_move(state, mv)
        IN  /\ state' = out.state
            /\ last' = [ix |-> "process_move",
                        valid |-> out.revealed.valid,
                        grew |-> Grew(state, out.state),
                        landing_slot |-> out.revealed.landing_slot,
                        current_slot |-> mv.current_slot,
                        distance |-> compute_distance(mv.source_x, mv.source_y,
                                                      mv.target_x, mv.target_y),
                        game_speed |-> mv.game_speed,
                        velocity |-> state.launch_velocity]
            /\ UNCHANGED <<ledgerVars, spawnVars>>

SpecLaunch == LaunchInit /\ [][ApplyLaunch]_vars

(***************************************************************************)
(* Discovery specification: init_planet and init_spawn_planet applied to   *)
(* coordinates under several threshold settings; last keeps the input and  *)
(* what the circuit revealed                                               *)
(***************************************************************************)
\* InitXs and coordinates whose h0 has byte 0 = 5 under large other bytes,
\* one comet (byte 3 = 230), two comets with comet byte 5 = 255
DiscoverXs ==
    InitXs \cup { <<139, 105, 20, 8, 157, 239, 189, 247>>,
                  <<190, 99, 208, 147, 74, 0, 0, 0>>,
                  <<190, 99, 208, 90, 231, 189, 214, 90>> }

DeadSpaceThresholds == {0, 10, 80, 255}

\* <<planet, quasar, spacetime_rip, size 1..5>> thresholds
OtherThresholds ==
    { <<100, 150, 200, 50, 100, 150, 200, 250>>,
      <<10, 30, 250, 10, 20, 30, 40, 50>> }

DiscoverInputs ==
    { [x |-> x, y |-> W64(0), game_id |-> W64(1),
       dead_space_threshold |-> d,
       planet_threshold |-> t[1], quasar_threshold |-> t[2],
       spacetime_rip_threshold |-> t[3],
       size_threshold_1 |-> t[4], size_threshold_2 |-> t[5],
       size_threshold_3 |-> t[6], size_threshold_4 |-> t[7],
       size_threshold_5 |-> t[8]]
      : x \in DiscoverXs, d \in DeadSpaceThresholds, t \in OtherThresholds }

WithPlayerKey(inp, k) ==
    [x |-> inp.x, y |-> inp.y, game_id |-> inp.game_id,
     dead_space_threshold |-> inp.dead_space_threshold,
     planet_threshold |-> inp.planet_threshold,
     quasar_threshold |-> inp.quasar_threshold,
     spacetime_rip_threshold |-> inp.spacetime_rip_threshold,
     size_threshold_1 |-> inp.size_threshold_1,
     size_threshold_2 |-> inp.size_threshold_2,
     size_threshold_3 |-> inp.size_threshold_3,
     size_threshold_4 |-> inp.size_threshold_4,
     size_threshold_5 |-> inp.size_threshold_5,
     player_key_0 |-> k[1], player_key_1 |-> k[2],
     player_key_2 |-> k[3], player_key_3 |-> k[4]]

DiscoverSpawnInputs ==
    { WithPlayerKey(inp, k) : inp \in DiscoverInputs, k \in PlayerKeys }

\* the circuits' outputs on those inputs
InitPlanetOutputs == [inp \in DiscoverInputs |-> init_planet(inp)]

InitSpawnPlanetOutputs == [inp \in DiscoverSpawnInputs |-> init_spawn_planet(inp)]

Discovered(inp) ==
    LET out == InitPlanetOutputs[inp]
    IN  /\ state = out.state
        /\ last = [ix |-> "init_planet", valid |-> out.revealed.valid,
                   grew |-> FALSE, input |-> inp, revealed |-> out.revealed]

DiscoverInit == LedgerInit /\ \E inp \in DiscoverInputs : Discovered(inp)

ApplyInitPlanet ==
    \E inp \in DiscoverInputs :
        LET out == InitPlanetOutputs[inp]
        IN  /\ state' = out.state
            /\ last' = [ix |-> "init_planet", valid |-> out.revealed.valid,
                        grew |-> FALSE, input |-> inp, revealed |-> out.revealed]
            /\ UNCHANGED <<ledgerVars, spawnVars>>

ApplyInitSpawnPlanet ==
    \E inp \in DiscoverSpawnInputs :
        LET out == InitSpawnPlanetOutputs[inp]
        IN  /\ state' = out.state
            /\ last' = [ix |-> "init_spawn_planet",
                        valid |-> out.revealed.is_spawn_valid,
                        grew |-> FALSE, input |-> inp, revealed |-> out.revealed]
            /\ UNCHANGED <<ledgerVars, spawnVars>>

DiscoverNext == ApplyInitPlanet \/ ApplyInitSpawnPlanet

SpecDiscover == DiscoverInit /\ [][DiscoverNext]_vars

(***************************************************************************)
(* Distance specification: compute_distance at its full 64-bit width on    *)
(* signed coordinates cast to u64, words kept as base-256 digits           *)
(***************************************************************************)
\* i64 as u64: two's complement, the complement of -n - 1 for negative n
CastU64(n) ==
    IF n >= 0 THEN W64(n) ELSE [i \in 1..8 |-> 255 - W64(0 - n - 1)[i]]

RECURSIVE GreaterFrom(_, _, _)
GreaterFrom(a, b, i) ==
    IF i = 0 THEN FALSE
    ELSE IF a[i] # b[i] THEN a[i] > b[i]
    ELSE GreaterFrom(a, b, i - 1)

\* a > b on u64
Greater64(a, b) == GreaterFrom(a, b, 8)

RECURSIVE Borrow64(_, _, _)
\* borrow into digit i of a - b
Borrow64(a, b, i) ==
    IF i = 1 THEN 0
    ELSE IF a[i - 1] - b[i - 1] - Borrow64(a, b, i - 1) < 0 THEN 1 ELSE 0

\* a - b on u64, for a >= b
Sub64(a, b) == [i \in 1..8 |-> (a[i] - b[i] - Borrow64(a, b, i)) % 256]

\* a / 2 on u64
Half64(a) ==
    [i \in 1..8 |-> a[i] \div 2 + (IF i < 8 THEN (a[i + 1] % 2) * 128 ELSE 0)]

compute_abs_diff_u64(a, b) == IF Greater64(a, b) THEN Sub64(a, b) ELSE Sub64(b, a)

compute_distance_u64(sx, sy, tx, ty) ==
    LET dx == compute_abs_diff_u64(sx, tx)
        dy == compute_abs_diff_u64(sy, ty)
        max_d == IF Greater64(dx, dy) THEN dx ELSE dy
        min_d == IF Greater64(dx, dy) THEN dy ELSE dx
    IN  MulAdd64(max_d, 1, Half64(min_d))

\* signed coordinates on both sides of the origin
SignedCoordinates == {0 - 3, 0 - 1, 0, 2, 7}

\* the circuit's distance between any two of those points
DistancesU64 ==
    [sx \in SignedCoordinates, sy \in SignedCoordinates,
     tx \in SignedCoordinates, ty \in SignedCoordinates |->
        compute_distance_u64(CastU64(sx), CastU64(sy), CastU64(tx), CastU64(ty))]

DistanceInit == LedgerInit /\ CircuitIdle

ApplyDistance ==
    \E sx \in SignedCoordinates, sy \in SignedCoordinates,
       tx \in SignedCoordinates, ty \in SignedCoordinates :
        /\ last' = [ix |-> "compute_distance", valid |-> 1, grew |-> FALSE,
                    source |-> <<sx, sy>>, target |-> <<tx, ty>>,
                    distance |-> DistancesU64[sx, sy, tx, ty]]
        /\ UNCHANGED <<ledgerVars, state, spawnVars>>

SpecDistance == DistanceInit /\ [][ApplyDistance]_vars

(***************************************************************************)
(* Landing specification: process_move applied to a spawned source planet, *)
(* then flush_planet of the payload it produced onto the target planet in  *)
(* state.  last keeps the payload between the two, and after the flush the *)
(* target as it was and the timing the flush ran with.                     *)
(***************************************************************************)
LandingSources == { init_spawn_planet(inp).state : inp \in InitSpawnPlanetInputs }

LandingTargets ==
    { init_planet(inp).state : inp \in InitPlanetInputs } \cup LandingSources

\* what process_move returns for the target, over every request on every
\* source: the payload and what it reveals
MoveOutputs ==
    { [move_data |-> process_move(src, mv).move_data,
       revealed |-> process_move(src, mv).revealed]
      : src \in LandingSources, mv \in ProcessMoveInputs }

\* the flush input assembled from the stored payload and the timing
FlushOfPayload(move_data, tm) ==
    [current_slot |-> tm[1], game_speed |-> tm[3], last_updated_slot |-> tm[2],
     move_ships |-> move_data.ships_arriving,
     move_metal |-> move_data.metal_arriving,
     move_attacker_0 |-> move_data.attacker_0,
     move_attacker_1 |-> move_data.attacker_1,
     move_attacker_2 |-> move_data.attacker_2,
     move_attacker_3 |-> move_data.attacker_3,
     move_has_landed |-> 1]

LandingInit ==
    /\ LedgerInit
    /\ state \in LandingTargets
    /\ last = [ix |-> "init_planet", valid |-> 1, grew |-> FALSE]

ApplyMoveRequest ==
    \E out \in MoveOutputs :
        /\ last' = [ix |-> "process_move", valid |-> out.revealed.valid,
                    grew |-> FALSE, move_data |-> out.move_data,
                    revealed |-> out.revealed]
        /\ UNCHANGED <<ledgerVars, state, spawnVars>>

ApplyLanding ==
    /\ last.ix = "process_move"
    /\ \E tm \in MainTimings :
           LET out == flush_planet(state, FlushOfPayload(last.move_data, tm))
           IN  /\ state' = out.state
               /\ last' = [ix |-> "flush_planet", valid |-> last.valid,
                           grew |-> Grew(state, out.state),
                           target |-> state, timing |-> tm]
    /\ UNCHANGED <<ledgerVars, spawnVars>>

LandingNext == ApplyMoveRequest \/ ApplyLanding

SpecLanding == LandingInit /\ [][LandingNext]_vars

(***************************************************************************)
(* Timing specification: the shipment life cycle and upgrades, where each  *)
(* accepted queue_flush_planet and queue_upgrade_planet leaves in last the *)
(* timing its ciphertexts encrypt (the client's choice) next to the        *)
(* ledger's at that moment, and the ship count that upgrade_planet, which  *)
(* regenerates whoever owns the planet, derives from either.               *)
(***************************************************************************)
\* <<current_slot, last_updated_slot, game_speed>> as the accounts have them
LedgerTiming(celestial_body) ==
    <<clock, bodies[celestial_body].last_updated_slot, game.game_speed>>

\* what a client may encrypt: the ledger's values or any others
ClientTimings(celestial_body) == MainTimings \cup {LedgerTiming(celestial_body)}

RegenUnder(tm) ==
    compute_current_resource(state.ship_count, state.max_ship_capacity,
                             state.ship_gen_speed, tm[2], tm[1], tm[3])

\* the arguments a queue instruction hands to the cluster
QueuedArgs(ix, celestial_body, tm) ==
    [ix |-> ix, valid |-> 1, grew |-> FALSE,
     timing |-> tm, ledger |-> LedgerTiming(celestial_body),
     regen |-> RegenUnder(tm),
     ledger_regen |-> RegenUnder(LedgerTiming(celestial_body))]

SubmitFlush ==
    /\ \E req \in FlushPlanetRequests : \E tm \in ClientTimings(req[1]) :
           /\ QueueFlushPlanet(req[1], req[1], req[2], req[3], req[4], MaxInFlight)
           /\ IF result' = "Ok"
              THEN last' = QueuedArgs("queue_flush_planet", req[1], tm)
              ELSE UNCHANGED last
    /\ UNCHANGED <<state, spawnVars>>

SubmitUpgrade ==
    /\ \E len \in {6 * 32, 0}, tm \in ClientTimings(TargetPlanet) :
           /\ QueueUpgradePlanet(TargetPlanet, len, MaxInFlight)
           /\ IF result' = "Ok"
              THEN last' = QueuedArgs("queue_upgrade_planet", TargetPlanet, tm)
              ELSE UNCHANGED last
    /\ UNCHANGED <<state, spawnVars>>

TimingNext ==
    \/ DoTick
    \/ DoQueueProcessMove
    \/ DoProcessMoveCallback
    \/ SubmitFlush
    \/ DoFlushPlanetCallback
    \/ SubmitUpgrade
    \/ DoUpgradePlanetCallback

SpecTiming == Init /\ [][TimingNext]_vars

(***************************************************************************)
(* Properties of the ledger                                                *)
(***************************************************************************)
Sorted(moves) ==
    \A k \in 1..(Len(moves) - 1) : moves[k].landing_slot <= moves[k + 1].landing_slot

RECURSIVE InsertAll(_, _, _)
\* the entries process_move_callback builds from landing slots popped in
\* the order given, starting from the collection moves and move id id
InsertAll(moves, landing_slots, id) ==
    IF landing_slots = <<>> THEN moves
    ELSE LET landing_slot == Head(landing_slots)
             pos == CHOOSE q \in SortedInsertPositions(moves, landing_slot) : TRUE
         IN  InsertAll(InsertAt(moves, pos, [landing_slot |-> landing_slot, move_id |-> id]),
                       Tail(landing_slots), id + 1)

\* C1: in every reachable state each planet's moves is sorted by
\* non-decreasing landing_slot (so the front holds a minimal landing_slot),
\* and inserting landing slots 50, 10, 30 gives front-to-back 10, 30, 50.
MovesSorted ==
    /\ \A p \in Planets : Sorted(pendings[p].moves)
    /\ LET moves == InsertAll(<<>>, <<50, 10, 30>>, 0)
       IN  [k \in 1..Len(moves) |-> moves[k].landing_slot] = <<10, 30, 50>>

\* a move confirmed later but landing earlier sits in front of an older one
MovesSortedWitness ==
    \E p \in Planets :
        /\ Len(pendings[p].moves) >= 2
        /\ pendings[p].moves[1].move_id > pendings[p].moves[2].move_id
        /\ pendings[p].moves[1].landing_slot < pendings[p].moves[2].landing_slot

\* C2: every verified flush_planet_callback removes exactly the entry at
\* index 0 of the planet's moves and leaves the other entries, in their
\* order, behind.
FlushRemovesFront ==
    [][\A c \in BagToSet(computations) :
          FlushPlanetCallback(c, TRUE) =>
             LET p == c.pending
             IN  /\ pendings[p].moves # <<>>
                 /\ pendings'[p].moves = Tail(pendings[p].moves)]_vars

\* the conditions under which the claim says a flush request is accepted
FlushPrecondition(pending, flush_count, remaining_accounts) ==
    /\ pending.moves # <<>>
    /\ pending.moves[1].landing_slot <= clock
    /\ flush_count = 1
    /\ remaining_accounts =
          <<MovePda(pending.game_id, pending.planet_hash, pending.moves[1].move_id)>>

EntryPresent(c) ==
    \E k \in 1..Len(pendings[c.pending].moves) :
        MovePda(pendings[c.pending].game_id, pendings[c.pending].planet_hash,
                pendings[c.pending].moves[k].move_id) = c.move_account

\* C4: of two flushes queued against the same front entry at most one takes
\* effect: a flush callback that finds its entry already removed changes
\* neither the planet's dynamic state nor the pending-move collection.
SecondFlushHasNoEffect ==
    [][\A c \in BagToSet(computations) :
          (FlushPlanetCallback(c, TRUE) /\ ~EntryPresent(c)) =>
             /\ bodies' = bodies
             /\ pendings' = pendings]_vars

\* C5: no two computations are in flight on the same planet at once.
OneComputationPerPlanet ==
    \A c, d \in BagToSet(computations) :
        /\ computations[c] = 1
        /\ c # d => c.body # d.body

\* C6: queue_process_move is rejected with MustFlushFirst whenever the
\* source planet's own moves has a landed entry at its front, so no move is
\* originated from such a planet.
NoMoveFromUnflushedSource ==
    [][\A sb \in Planets, sp \in Planets, tp \in Planets,
          ls \in LandingSlots, len \in {8 * 32, 0} :
          (/\ QueueProcessMove(sb, sp, tp, ls, len, MaxInFlight, MaxMoveId)
           /\ pendings[sb].moves # <<>>
           /\ pendings[sb].moves[1].landing_slot <= clock) =>
             /\ result' # "Ok"
             /\ computations' = computations]_vars

\* C7: the shipments in flight to a planet (requests awaiting their
\* process-move callback plus entries of moves) never exceed
\* MAX_QUEUED_CALLBACKS.
InFlightBounded ==
    \A p \in Planets :
        pendings[p].queued_count + Len(pendings[p].moves) <= MAX_QUEUED_CALLBACKS

(***************************************************************************)
(* Properties of the circuits (checked under SpecCircuit)                  *)
(***************************************************************************)

\* C8: after every circuit application, starting from any planet that
\* init_planet or init_spawn_planet produced, 0 <= ship_count <=
\* max_ship_capacity and 0 <= metal_count <= max_metal_capacity.
CapacityInvariant ==
    /\ 0 <= state.ship_count
    /\ state.ship_count <= state.max_ship_capacity
    /\ 0 <= state.metal_count
    /\ state.metal_count <= state.max_metal_capacity

\* a conquest whose ships and metal were both cut down to the capacities
CapacityWitness ==
    /\ last.ix = "flush_planet"
    /\ last.valid = 1
    /\ state.owner_exists = 1
    /\ state.max_metal_capacity > 0
    /\ state.ship_count = state.max_ship_capacity
    /\ state.metal_count = state.max_metal_capacity

NoElapsed(fi) == [fi EXCEPT !.current_slot = fi.last_updated_slot]

UnownedNeverRegenerates ==
    state.owner_exists = 0 =>
        /\ \A mv \in ProcessMoveInputs : ~Grew(state, process_move(state, mv).state)
        /\ \A ui \in UpgradePlanetInputs : ~Grew(state, upgrade_planet(state, ui).state)
        /\ \A fi \in FlushPlanetInputs :
              flush_planet(state, fi).state = flush_planet(state, NoElapsed(fi)).state


(***************************************************************************)
(* Properties of spawning                                                  *)
(***************************************************************************)
\* a step in which the player record of p goes from not spawned to spawned
Spawns(p) ==
    /\ players[p].exists /\ players'[p].exists
    /\ ~players[p].has_spawned /\ players'[p].has_spawned

\* C11: has_spawned becomes true only in a step whose spawn computation
\* reported is_spawn_valid = 1; a spawn attempt on dead space, on a body that
\* is not a Planet or on a size other than 1 does not advance has_spawned.
SpawnedOnlyWhenValid ==
    [][\A p \in PlayerIds :
          Spawns(p) => (last'.ix = "init_spawn_planet" /\ last'.valid = 1)]_vars


(***************************************************************************)
(* Properties of dispatch                                                  *)
(***************************************************************************)
\* a step that adds an entry to the pending moves of planet p
AddsEntry(p) == Len(pendings'[p].moves) > Len(pendings[p].moves)

\* C12: process_move_callback adds a pending-move entry only when the
\* process_move circuit returned valid = 1.
EntryOnlyWhenValid ==
    [][\A p \in Planets :
          AddsEntry(p) => (last'.ix = "process_move" /\ last'.valid = 1)]_vars


\* a step in which the cluster's result for computation c arrived unverified
Aborts(c) ==
    /\ result' = "AbortedComputation"
    /\ computations' = computations (-) SetToBag({c})

\* C13: after an aborted process_move callback the persistent state is the
\* one before the queue_process_move request: the target's queued_count and
\* account size are back to what they were and the move account is gone, so
\* that the same request can be submitted again.
AbortRestoresRequest ==
    [][\A c \in BagToSet(computations) :
          (c.ix = "process_move" /\ Aborts(c)) =>
              /\ pendings'[c.pending].queued_count =
                     pendings[c.pending].queued_count - 1
              /\ pendings'[c.pending].data_len =
                     pendings[c.pending].data_len - PENDING_MOVE_ENTRY_SIZE
              /\ c.move_account \notin DOMAIN move_accounts']_vars


\* a step in which init_spawn_planet_callback stored a result for player p
SpawnCallbackFor(p) ==
    \E c \in spawns : c.player = p /\ spawns' = spawns \ {c} /\ result' = "Ok"

\* C14: a player record is created with has_spawned false; while the record
\* exists the flag changes only from false to true, only in a step of
\* init_spawn_planet_callback for that player, and no step sets it back.
HasSpawnedIrreversible ==
    [][\A p \in PlayerIds :
          /\ (~players[p].exists /\ players'[p].exists)
                 => ~players'[p].has_spawned
          /\ (players[p].exists /\ players'[p].exists /\ players[p].has_spawned)
                 => players'[p].has_spawned
          /\ Spawns(p) => SpawnCallbackFor(p)]_vars

HasSpawnedIrreversibleWitness ==
    \E p \in PlayerIds :
        /\ players[p].exists /\ players[p].has_spawned
        /\ \E h \in DOMAIN spawn_bodies : spawn_bodies[h].written
        /\ clock > game.end_slot


(***************************************************************************)
(* Properties of the circuits                                              *)
(***************************************************************************)
\* what init_spawn_planet makes of one request
SpawnOwnership(inp) ==
    LET out == init_spawn_planet(inp)
        st == out.state
        spawnable == /\ out.revealed.valid = 1
                     /\ st.body_type = 0
                     /\ st.size = 1
        owned_by_requester == /\ st.owner_exists = 1
                              /\ st.owner_0 = inp.player_key_0
                              /\ st.owner_1 = inp.player_key_1
                              /\ st.owner_2 = inp.player_key_2
                              /\ st.owner_3 = inp.player_key_3
    IN  /\ spawnable <=> owned_by_requester
        /\ spawnable <=> (out.revealed.is_spawn_valid = 1)
        /\ spawnable => st.ship_count = 0
        /\ ~spawnable =>
              /\ st.owner_exists = 0
              /\ st.owner_0 = 0 /\ st.owner_1 = 0
              /\ st.owner_2 = 0 /\ st.owner_3 = 0
              /\ st.ship_count = base_stats(st.body_type, st.size)[7]

\* every request the model draws: size-1 Planet, dead space, SpacetimeRip,
\* AsteroidBelt and size-2 Planet coordinates, each under both keys
SpawnOwnershipOfRequests == \A inp \in InitSpawnPlanetInputs : SpawnOwnership(inp)

\* C15: init_spawn_planet outputs owner_exists = 1 with the requesting key as
\* owner exactly when the coordinate is a body, of type Planet (0) and of
\* size 1, and then ship_count is 0; otherwise owner_exists and the four
\* owner limbs are 0 and the body keeps its native ships.
SpawnAssignsOwner ==
    /\ SpawnOwnershipOfRequests
    /\ last.ix = "init_spawn_planet" =>
          /\ (last.valid = 1) <=> (state.owner_exists = 1)
          /\ last.valid = 1 =>
                /\ state.body_type = 0 /\ state.size = 1 /\ state.ship_count = 0
                /\ <<state.owner_0, state.owner_1, state.owner_2, state.owner_3>>
                       \in PlayerKeys
          /\ last.valid = 0 =>
                /\ <<state.owner_0, state.owner_1, state.owner_2, state.owner_3>>
                       = <<0, 0, 0, 0>>
                /\ state.ship_count = base_stats(state.body_type, state.size)[7]

SpawnAssignsOwnerWitness ==
    /\ last.ix = "init_spawn_planet" /\ last.valid = 1
    /\ state.owner_exists = 1 /\ state.owner_3 = 45 /\ state.ship_count = 0


Smaller(a, b) == IF a < b THEN a ELSE b

\* the ships (metal) the defender of st holds when the flush is computed
DefenderShips(st, fi) ==
    FlushRegen(st.owner_exists, st.ship_count, st.max_ship_capacity,
               st.ship_gen_speed, fi)

DefenderMetal(st, fi) ==
    FlushRegen(st.owner_exists, st.metal_count, st.max_metal_capacity,
               st.metal_gen_speed, fi)

Hostile(st, fi) == fi.move_has_landed = 1 /\ ~IsFriendly(st, fi)

Attacker(fi) ==
    <<fi.move_attacker_0, fi.move_attacker_1, fi.move_attacker_2, fi.move_attacker_3>>

Owner(st) == <<st.owner_0, st.owner_1, st.owner_2, st.owner_3>>

ConquestOutcome(st, fi) ==
    LET out == flush_planet(st, fi).state
    IN  (Hostile(st, fi) /\ fi.move_ships > DefenderShips(st, fi)) =>
            /\ out.owner_exists = 1
            /\ Owner(out) = Attacker(fi)
            /\ out.ship_count = Smaller(fi.move_ships - DefenderShips(st, fi),
                                        st.max_ship_capacity)
            /\ out.metal_count = Smaller(fi.move_metal, st.max_metal_capacity)

\* a planet of key (11,22,33,44) holding 100 ships, capacity 200
ExampleDefender ==
    [body_type |-> 0, size |-> 1, owner_exists |-> 1,
     owner_0 |-> 11, owner_1 |-> 22, owner_2 |-> 33, owner_3 |-> 44,
     ship_count |-> 100, max_ship_capacity |-> 200, ship_gen_speed |-> 1,
     metal_count |-> 0, max_metal_capacity |-> 0, metal_gen_speed |-> 0,
     range |-> 4, launch_velocity |-> 2, level |-> 1,
     comet_count |-> 0, comet_0 |-> 255, comet_1 |-> 255]

\* a landed move of ships ships and no metal from key (11,22,33,45), no slot elapsed
ExampleLanding(ships) ==
    [current_slot |-> 0, game_speed |-> 1, last_updated_slot |-> 0,
     move_ships |-> ships, move_metal |-> 0,
     move_attacker_0 |-> 11, move_attacker_1 |-> 22,
     move_attacker_2 |-> 33, move_attacker_3 |-> 45,
     move_has_landed |-> 1]

\* C16: when flush_planet processes a landed hostile move with more ships
\* than the defender currently holds, the attacker becomes the owner,
\* ship_count is min(attacker - defender, max_ship_capacity) and metal_count
\* is min(attacker metal, max_metal_capacity); 150 ships against 100 (capacity
\* 200, no metal) leave the attacker owning 50 ships and 0 metal.
AttackerTakesPlanet ==
    /\ \A fi \in FlushPlanetInputs : ConquestOutcome(state, fi)
    /\ LET out == flush_planet(ExampleDefender, ExampleLanding(150)).state
       IN  /\ Owner(out) = <<11, 22, 33, 45>> /\ out.owner_exists = 1
           /\ out.ship_count = 50 /\ out.metal_count = 0

\* an owner on a body that nobody can spawn on has conquered it
AttackerTakesPlanetWitness ==
    /\ last.ix = "flush_planet"
    /\ state.body_type # 0 /\ state.owner_exists = 1
    /\ Owner(state) \in PlayerKeys
    /\ state.ship_count = state.max_ship_capacity


RepelOutcome(st, fi) ==
    LET out == flush_planet(st, fi).state
    IN  (Hostile(st, fi) /\ fi.move_ships <= DefenderShips(st, fi)) =>
            /\ out.owner_exists = st.owner_exists
            /\ Owner(out) = Owner(st)
            /\ out.ship_count = DefenderShips(st, fi) - fi.move_ships
            /\ out.metal_count = DefenderMetal(st, fi)

\* C17: when flush_planet processes a landed hostile move with no more ships
\* than the defender currently holds (a tie included), the owner is
\* unchanged, ship_count is defender - attacker and metal_count is the
\* defender's own metal, whatever metal the move carried.
DefenderHoldsPlanet ==
    /\ \A fi \in FlushPlanetInputs : RepelOutcome(state, fi)
    /\ LET out == flush_planet(ExampleDefender, ExampleLanding(100)).state
       IN  /\ Owner(out) = <<11, 22, 33, 44>> /\ out.owner_exists = 1
           /\ out.ship_count = 0 /\ out.metal_count = 0

\* an unowned body that has lost all its native ships to repelled moves
DefenderHoldsPlanetWitness ==
    /\ last.ix = "flush_planet"
    /\ state.owner_exists = 0
    /\ base_stats(state.body_type, state.size)[7] > 0
    /\ state.ship_count = 0


ReinforceOutcome(st, fi) ==
    LET out == flush_planet(st, fi).state
        regenerated_ships ==
            compute_current_resource(st.ship_count, st.max_ship_capacity,
                st.ship_gen_speed, fi.last_updated_slot, fi.current_slot,
                fi.game_speed)
        regenerated_metal ==
            compute_current_resource(st.metal_count, st.max_metal_capacity,
                st.metal_gen_speed, fi.last_updated_slot, fi.current_slot,
                fi.game_speed)
    IN  (/\ fi.move_has_landed = 1
         /\ st.owner_exists = 1
         /\ Owner(st) = Attacker(fi)) =>
            /\ out.owner_exists = 1
            /\ Owner(out) = Owner(st)
            /\ out.ship_count = Smaller(regenerated_ships + fi.move_ships,
                                        st.max_ship_capacity)
            /\ out.metal_count = Smaller(regenerated_metal + fi.move_metal,
                                         st.max_metal_capacity)

\* C18: when flush_planet processes a landed move whose attacker key equals
\* the key of the current owner (owner_exists = 1, four limbs equal), the
\* owner is unchanged and ships and metal become the regenerated amount plus
\* the amount the move carries, each capped at the planet's capacity.
FriendlyMoveReinforces ==
    \A fi \in FlushPlanetInputs : ReinforceOutcome(state, fi)

\* a conquered asteroid belt (metal comes in steps of 2) holding the 5 metal
\* of a reinforcement
FriendlyMoveReinforcesWitness ==
    /\ last.ix = "flush_planet"
    /\ state.owner_exists = 1 /\ state.body_type = 3
    /\ state.metal_count = 5


\* the counts process_move validates a move against
AvailableShips(st, mv) ==
    compute_current_resource(st.ship_count, st.max_ship_capacity,
        st.ship_gen_speed, mv.last_updated_slot, mv.current_slot, mv.game_speed)

AvailableMetal(st, mv) ==
    compute_current_resource(st.metal_count, st.max_metal_capacity,
        st.metal_gen_speed, mv.last_updated_slot, mv.current_slot, mv.game_speed)

Requester(mv) ==
    <<mv.player_key_0, mv.player_key_1, mv.player_key_2, mv.player_key_3>>

Distance(mv) ==
    compute_distance(mv.source_x, mv.source_y, mv.target_x, mv.target_y)

MoveAdmissible(st, mv) ==
    /\ st.owner_exists = 1 /\ Owner(st) = Requester(mv)
    /\ mv.ships_to_send > 0 /\ mv.ships_to_send <= AvailableShips(st, mv)
    /\ mv.metal_to_send <= AvailableMetal(st, mv)
    /\ apply_distance_decay(mv.ships_to_send, Distance(mv), st.range) >= 1

\* C19: process_move returns valid = 1 exactly when the planet has an owner
\* equal to the requesting key, ships_to_send is positive and at most the
\* regenerated ships, metal_to_send is at most the regenerated metal, and at
\* least one ship survives the distance decay.
MoveValidIffAdmissible ==
    /\ \A mv \in ProcessMoveInputs :
          (process_move(state, mv).revealed.valid = 1) <=> MoveAdmissible(state, mv)
    /\ last.ix = "process_move" => last.valid \in {0, 1}

\* a valid move has been processed, and from the planet as it is now one
\* request fails each test on its own
MoveValidIffAdmissibleWitness ==
    /\ last.ix = "process_move" /\ last.valid = 1
    /\ \E mv \in ProcessMoveInputs :
          /\ MoveAdmissible(state, mv)
          /\ ~MoveAdmissible(state, [mv EXCEPT !.metal_to_send = 5])
          /\ ~MoveAdmissible(state, [mv EXCEPT !.ships_to_send = 0])
          /\ ~MoveAdmissible(state, [mv EXCEPT !.target_x = 40, !.target_y = 10])
          /\ ~MoveAdmissible(state, [mv EXCEPT !.player_key_3 = 89 - @])


\* the fields of a planet that process_move copies
StaticFields(st) ==
    <<st.body_type, st.size, st.max_ship_capacity, st.ship_gen_speed,
      st.max_metal_capacity, st.metal_gen_speed, st.range, st.launch_velocity,
      st.level, st.comet_count, st.comet_0, st.comet_1>>

\* the owner of ExampleDefender sends 5 of its 100 ships over distance 8
ExampleMove ==
    [player_key_0 |-> 11, player_key_1 |-> 22, player_key_2 |-> 33,
     player_key_3 |-> 44, ships_to_send |-> 5, metal_to_send |-> 0,
     source_x |-> 0, source_y |-> 0, target_x |-> 8, target_y |-> 0,
     current_slot |-> 0, game_speed |-> 1, last_updated_slot |-> 0]

ValidMoveOutcome(st, mv) ==
    LET out == process_move(st, mv)
    IN  out.revealed.valid = 1 =>
            /\ out.state.ship_count = AvailableShips(st, mv) - mv.ships_to_send
            /\ out.state.metal_count = AvailableMetal(st, mv) - mv.metal_to_send
            /\ out.move_data.ships_arriving =
                   mv.ships_to_send - (Distance(mv) \div st.range)
            /\ out.move_data.metal_arriving = mv.metal_to_send
            /\ <<out.move_data.attacker_0, out.move_data.attacker_1,
                 out.move_data.attacker_2, out.move_data.attacker_3>> = Requester(mv)
            /\ out.state.owner_exists = st.owner_exists
            /\ Owner(out.state) = Owner(st)
            /\ StaticFields(out.state) = StaticFields(st)

\* C20: a valid process_move takes the full ships_to_send and metal_to_send
\* from the source's regenerated counts, and its payload carries
\* ships_to_send - distance/range ships, metal_to_send metal and the
\* requesting key as attacker; the source's owner and static fields are
\* unchanged.
ValidMoveDeductsAndShips ==
    /\ \A mv \in ProcessMoveInputs : ValidMoveOutcome(state, mv)
    /\ LET out == process_move(ExampleDefender, ExampleMove)
       IN  /\ out.revealed.valid = 1
           /\ out.state = [ExampleDefender EXCEPT !.ship_count = 95]
           /\ out.move_data.ships_arriving = 3

\* a valid move has been processed, and from the planet as it is now a valid
\* move loses ships on the way
ValidMoveDeductsAndShipsWitness ==
    /\ last.ix = "process_move" /\ last.valid = 1
    /\ state.ship_count < state.max_ship_capacity
    /\ \E mv \in ProcessMoveInputs :
          /\ process_move(state, mv).revealed.valid = 1
          /\ Distance(mv) \div state.range > 0
          /\ process_move(state, mv).move_data.ships_arriving < mv.ships_to_send


(***************************************************************************)
(* Properties of upgrade_planet                                            *)
(***************************************************************************)
UpgradeMetal(st, ui) ==
    compute_current_resource(st.metal_count, st.max_metal_capacity,
        st.metal_gen_speed, ui.last_updated_slot, ui.current_slot, ui.game_speed)

UpgradeShips(st, ui) ==
    compute_current_resource(st.ship_count, st.max_ship_capacity,
        st.ship_gen_speed, ui.last_updated_slot, ui.current_slot, ui.game_speed)

UpgradeOutcome(st, ui) ==
    LET out == upgrade_planet(st, ui)
        new == out.state
    IN  out.revealed.success = 1 =>
            /\ \/ new.range = 2 * st.range /\ new.launch_velocity = st.launch_velocity
               \/ new.range = st.range /\ new.launch_velocity = 2 * st.launch_velocity
            /\ new.level = st.level + 1
            /\ new.metal_count = UpgradeMetal(st, ui) - upgrade_cost(st.level)
            /\ new.max_ship_capacity = 2 * st.max_ship_capacity
            /\ new.max_metal_capacity = 2 * st.max_metal_capacity
            /\ new.ship_gen_speed = 2 * st.ship_gen_speed

UpgradeRefused(st, ui) ==
    \/ ~(st.owner_exists = 1 /\ Owner(st) = Requester(ui))
    \/ st.body_type # 0
    \/ UpgradeMetal(st, ui) < upgrade_cost(st.level)

FailedUpgradeOutcome(st, ui) ==
    LET out == upgrade_planet(st, ui)
    IN  /\ UpgradeRefused(st, ui) <=> (out.revealed.success = 0)
        /\ out.revealed.success = 0 =>
              /\ out.state = [st EXCEPT !.ship_count = UpgradeShips(st, ui),
                                        !.metal_count = UpgradeMetal(st, ui)]
              /\ out.revealed.new_level = st.level

\* C22: when upgrade_planet fails (owner mismatch, body not a Planet, or
\* regenerated metal below upgrade_cost(level)), the returned state is the
\* input with ship_count and metal_count replaced by their regenerated
\* values, and the revealed new_level is the old level.
FailedUpgradeOnlyRegenerates ==
    \A ui \in UpgradeRequests : FailedUpgradeOutcome(state, ui)

\* a refused upgrade has left regenerated counts behind, on an upgraded
\* Planet that cannot afford the next level and has a request from another key
FailedUpgradeOnlyRegeneratesWitness ==
    /\ last.ix = "upgrade_planet" /\ last.valid = 0 /\ last.grew
    /\ state.owner_exists = 1 /\ state.body_type = 0 /\ state.level = 2
    /\ state.metal_count < upgrade_cost(state.level)
    /\ \E ui \in UpgradeRequests : Owner(state) # Requester(ui)


\* the u8 values of level
Levels == 0..255

UpgradeCostTable ==
    /\ \A level \in 1..10 : upgrade_cost(level) = 100 * 2^level
    /\ upgrade_cost(1) = 200 /\ upgrade_cost(2) = 400 /\ upgrade_cost(9) = 51200
    /\ \A level \in Levels : upgrade_cost(level) \in Nat

\* C23: upgrade_cost(level) is 100 * 2^level for every level from 1 to 10
\* (200 at level 1, 400 at level 2, 51200 at level 9) and has a value for
\* every level; a successful upgrade spends exactly that amount.
UpgradeCostDoubles ==
    /\ UpgradeCostTable
    /\ \A ui \in UpgradeRequests :
          LET out == upgrade_planet(state, ui)
          IN  (out.revealed.success = 1 /\ state.level \in 1..10) =>
                  UpgradeMetal(state, ui) - out.state.metal_count
                      = 100 * 2^(state.level)

\* the upgrade from level 9 has been paid
UpgradeCostDoublesWitness ==
    /\ last.ix = "upgrade_planet" /\ last.valid = 1
    /\ state.level = 10 /\ state.metal_count = 0



(***************************************************************************)
(* Properties of compute_landing_slot                                      *)
(***************************************************************************)
Launched == last.ix = "process_move" /\ last.valid = 1 /\ last.velocity > 0

LandingAt(v) ==
    compute_landing_slot(last.current_slot, last.distance, v, last.game_speed)

Sentinel == last.current_slot + 999999999

\* C24 as stated: a fleet launched at a positive velocity would land
\* strictly later than the same fleet at any higher velocity, and before
\* the zero-velocity sentinel current_slot + 999999999.
LandingStrictlyDecreases ==
    Launched =>
        /\ \A v2 \in LaunchVelocities :
               v2 > last.velocity => LandingAt(v2) < last.landing_slot
        /\ last.landing_slot < Sentinel

\* C24: a fleet launched at a positive velocity lands at current_slot +
\* (distance * game_speed) \div velocity, never earlier than the same fleet
\* at a higher velocity, and before the sentinel exactly when the quotient
\* is below 999999999; velocity 0 gives the sentinel.
LandingNeverLater ==
    /\ Launched =>
        /\ last.landing_slot = last.current_slot
               + (last.distance * last.game_speed) \div last.velocity
        /\ \A v2 \in LaunchVelocities :
               v2 > last.velocity => LandingAt(v2) <= last.landing_slot
        /\ last.landing_slot < Sentinel
               <=> (last.distance * last.game_speed) \div last.velocity < 999999999
    /\ last.ix = "process_move" /\ last.valid = 1 /\ last.velocity = 0
           => last.landing_slot = Sentinel

\* a valid launch over a positive distance whose landing slot some higher
\* velocity shares
LandingNeverLaterWitness ==
    /\ Launched
    /\ last.distance > 0
    /\ \E v2 \in LaunchVelocities :
           v2 > last.velocity /\ LandingAt(v2) = last.landing_slot


(***************************************************************************)
(* Properties of compute_current_resource                                  *)
(***************************************************************************)
\* generated = gen_speed * elapsed / game_speed: the product is multiplied
\* by no further constant
ResourceScale == 1

\* <<current_slot, last_updated_slot, game_speed>>, with a game speed that
\* does not divide the product
ResourceTimings == Timings \cup { <<10, 0, 3>>, <<10, 3, 2>> }

Min(a, b) == IF a < b THEN a ELSE b

ExpectedResource(last_count, max_capacity, gen_speed, tm) ==
    IF gen_speed = 0 \/ tm[3] = 0 \/ tm[1] <= tm[2]
    THEN last_count
    ELSE Min(max_capacity,
             last_count + (gen_speed * (tm[1] - tm[2]) * ResourceScale) \div tm[3])

ResourceLaw(st, tm) ==
    /\ compute_current_resource(st.ship_count, st.max_ship_capacity,
           st.ship_gen_speed, tm[2], tm[1], tm[3])
         = ExpectedResource(st.ship_count, st.max_ship_capacity, st.ship_gen_speed, tm)
    /\ compute_current_resource(st.metal_count, st.max_metal_capacity,
           st.metal_gen_speed, tm[2], tm[1], tm[3])
         = ExpectedResource(st.metal_count, st.max_metal_capacity, st.metal_gen_speed, tm)

\* C25: compute_current_resource returns the last count when gen_speed is
\* 0, the game speed is 0 or the clock has not advanced, and otherwise
\* min(max, last + gen_speed * elapsed * ResourceScale / game_speed), for the
\* ships and for the metal of every planet state that upgrades pass through.
RegenerationLaw == \A tm \in ResourceTimings : ResourceLaw(state, tm)

\* an asteroid belt whose metal an upgrade request has regenerated from 0
\* to 2 * 10 / 1, and whose ships it has filled up to the capacity
RegenerationLawWitness ==
    /\ last.ix = "upgrade_planet" /\ last.grew
    /\ state.body_type = 3 /\ state.metal_gen_speed = 2
    /\ state.metal_count = 20
    /\ state.ship_count = state.max_ship_capacity


(***************************************************************************)
(* Properties of the game clock                                            *)
(***************************************************************************)
Queues == BagCardinality(computations') > BagCardinality(computations)

GameRunning == game.start_slot <= clock /\ clock < game.end_slot

\* C26: a request queues a computation only while
\* game.start_slot <= clock < game.end_slot.
QueuedOnlyWhileGameRuns == [][Queues => GameRunning]_vars


(***************************************************************************)
(* Properties of planet creation                                           *)
(***************************************************************************)
CreatesPlanet(h) == h \notin DOMAIN spawn_bodies /\ h \in DOMAIN spawn_bodies'

ClosesPlanet(h) == h \in DOMAIN spawn_bodies /\ h \notin DOMAIN spawn_bodies'

\* the step is a queue_init_planet or queue_init_spawn_planet request for h
CreationRequest(h) ==
    \/ \E len \in {2 * 32, 0} : QueueInitPlanet(h, len, MaxInFlight)
    \/ \E payer \in PlayerIds, len \in {4 * 32, 0} :
           QueueInitSpawnPlanet(payer, h, len, MaxInFlight)

DuplicateRejected(h) ==
    CreationRequest(h) =>
        /\ result' # "Ok"
        /\ UNCHANGED <<spawn_bodies, computations, spawns, players>>

PlanetHashMatchesCoordinates ==
    \A h \in DOMAIN spawn_bodies :
        spawn_bodies[h].written =>
            h = compute_planet_hash(spawn_bodies[h].enc_source[1],
                                    spawn_bodies[h].enc_source[2],
                                    W64(game.game_id), game.hash_rounds)


(***************************************************************************)
(* Properties of init_planet and init_spawn_planet                         *)
(***************************************************************************)
\* byte 0 of the revealed h0 (digit 1 of the word)
RevealedByte0 == last.revealed.hash_0[1]

\* C29: either circuit reveals valid = 1 exactly when byte 0 of h0 is at
\* least dead_space_threshold, whatever the other bytes and thresholds are;
\* below the threshold init_spawn_planet also reveals is_spawn_valid = 0, and
\* is_spawn_valid = 1 comes only with valid = 1.
ValidIffNotDeadSpace ==
    /\ last.revealed.valid \in {0, 1}
    /\ last.revealed.valid = 1
           <=> RevealedByte0 >= last.input.dead_space_threshold
    /\ last.ix = "init_spawn_planet" =>
           /\ last.revealed.is_spawn_valid \in {0, 1}
           /\ RevealedByte0 < last.input.dead_space_threshold
                  => last.revealed.is_spawn_valid = 0
           /\ last.revealed.is_spawn_valid = 1 => last.revealed.valid = 1

\* a spawn request at the coordinate whose h0 has byte 0 = 5 under large
\* other bytes, refused as dead space under threshold 10
ValidIffNotDeadSpaceWitness ==
    /\ last.ix = "init_spawn_planet"
    /\ RevealedByte0 = 5 /\ last.revealed.hash_0[2] = 200
    /\ last.input.dead_space_threshold = 10
    /\ last.revealed.valid = 0

StaticStats(st) ==
    <<st.body_type, st.size, st.comet_count, st.comet_0, st.comet_1,
      st.max_ship_capacity, st.ship_gen_speed, st.max_metal_capacity,
      st.metal_gen_speed, st.range, st.launch_velocity, st.level>>

RevealedHash(rv) == <<rv.hash_0, rv.hash_1, rv.hash_2, rv.hash_3>>

\* the input of init_planet that a spawn input carries
Coordinates(inp) == [f \in DOMAIN inp \ {"player_key_0", "player_key_1",
                                          "player_key_2", "player_key_3"} |-> inp[f]]

Agree(a, b) ==
    /\ RevealedHash(a.revealed) = RevealedHash(b.revealed)
    /\ a.revealed.valid = b.revealed.valid
    /\ StaticStats(a.state) = StaticStats(b.state)

\* C30: what a circuit stored and revealed for an input is what another
\* invocation on that input gives, and init_planet and init_spawn_planet
\* agree on the revealed hash, the valid flag, the body type, the size, the
\* comets and the static stats for the same coordinates and thresholds.
InitCircuitsAgree ==
    LET stored == [state |-> state, revealed |-> last.revealed]
    IN  /\ last.ix = "init_planet" =>
            /\ stored = init_planet(last.input)
            /\ \A k \in PlayerKeys :
                   Agree(stored, init_spawn_planet(WithPlayerKey(last.input, k)))
        /\ last.ix = "init_spawn_planet" =>
            /\ stored = init_spawn_planet(last.input)
            /\ Agree(stored, init_planet(Coordinates(last.input)))

\* a spawn request at a coordinate that holds a size-2 body with two comets
InitCircuitsAgreeWitness ==
    /\ last.ix = "init_spawn_planet"
    /\ state.comet_count = 2 /\ state.size = 2
    /\ last.revealed.valid = 1


(***************************************************************************)
(* Properties of the comets                                                *)
(***************************************************************************)
CometKinds == 0..5

\* the second comet differs from the first for every byte and first comet
SecondCometAvoidsFirst ==
    \A b \in 0..255, first \in CometKinds :
        /\ comet_from_byte(b) \in CometKinds
        /\ comet_from_byte_avoiding(b, first) \in CometKinds \ {first}

\* C31: a planet made by init_planet or init_spawn_planet has two distinct
\* comets in 0..5 when comet_count = 2, comet_0 in 0..5 and comet_1 = 255
\* when comet_count = 1, and both 255 when comet_count = 0.
CometsDistinct ==
    /\ SecondCometAvoidsFirst
    /\ state.comet_count \in {0, 1, 2}
    /\ state.comet_count = 2 =>
           /\ state.comet_0 \in CometKinds /\ state.comet_1 \in CometKinds
           /\ state.comet_0 # state.comet_1
    /\ state.comet_count = 1 =>
           state.comet_0 \in CometKinds /\ state.comet_1 = 255
    /\ state.comet_count = 0 => state.comet_0 = 255 /\ state.comet_1 = 255

\* a spawn request at a coordinate with two comets whose byte 5 selects the
\* kind of the first comet
CometsDistinctWitness ==
    /\ last.ix = "init_spawn_planet"
    /\ state.comet_count = 2
    /\ last.revealed.hash_0[6] % 6 = state.comet_0


(***************************************************************************)
(* Properties of broadcast                                                 *)
(***************************************************************************)
HashOfCoordinates(x, y) == PlanetHashOf[game, <<x, y>>]

BroadcastOutcome(req) ==
    Broadcast(req[1], req[2], req[3]) =>
        /\ UNCHANGED <<clock, game, bodies, pendings, move_accounts, computations>>
        /\ UNCHANGED <<state, players, spawn_bodies, spawns>>
        /\ IF req[3] = HashOfCoordinates(req[1], req[2])
           THEN /\ result' = "Ok"
                /\ last'.ix = "broadcast"
                /\ last'.event.x = req[1] /\ last'.event.y = req[2]
                /\ last'.event.planet_hash = req[3]
           ELSE /\ result' = "InvalidPlanetHash"
                /\ last' = last

\* C32: broadcast(x, y, planet_hash) succeeds and emits the coordinates
\* exactly when planet_hash is compute_planet_hash(x, y, game_id,
\* hash_rounds), fails with InvalidPlanetHash otherwise, and changes no
\* game, player, planet or pending-move state either way.
BroadcastOnlyMatchingHash ==
    [][\A req \in BroadcastRequests : BroadcastOutcome(req)]_vars

\* a broadcast has been refused after another one was published, while a
\* planet account exists
BroadcastOnlyMatchingHashWitness ==
    /\ result = "InvalidPlanetHash"
    /\ last.ix = "broadcast"
    /\ last.event.planet_hash = HashOfCoordinates(last.event.x, last.event.y)
    /\ DOMAIN spawn_bodies # {}


(***************************************************************************)
(* Properties of compute_distance                                          *)
(***************************************************************************)
Abs(n) == IF n < 0 THEN 0 - n ELSE n

TrueDistance(source, target) ==
    LET dx == Abs(source[1] - target[1])
        dy == Abs(source[2] - target[2])
    IN  (IF dx > dy THEN dx ELSE dy) + (IF dx > dy THEN dy ELSE dx) \div 2

\* C33: for signed coordinates handed over cast to u64, compute_distance is
\* max(|dx|, |dy|) + min(|dx|, |dy|) / 2 of the true differences.
DistanceOfSignedCoordinates ==
    last.ix = "compute_distance" =>
        last.distance = W64(TrueDistance(last.source, last.target))


(***************************************************************************)
(* Properties of concurrent callbacks                                      *)
(***************************************************************************)
FrontPda(pending) ==
    MovePda(pending.game_id, pending.planet_hash, pending.moves[1].move_id)

\* C34: a flush callback whose entry is still in moves removes that entry,
\* the one whose move account its computation consumed, also when a
\* process-move callback has put an earlier-landing entry in front of it
\* since the flush was queued.
FlushRemovesConsumedEntry ==
    [][\A c \in BagToSet(computations) :
          (FlushPlanetCallback(c, TRUE) /\ EntryPresent(c)) =>
             /\ FrontPda(pendings[c.pending]) = c.move_account
             /\ pendings'[c.pending].moves = Tail(pendings[c.pending].moves)]_vars

\* C35: every entry (landing_slot, move_id) of a planet's moves has a
\* PendingMoveAccount at the PDA of (game_id, planet_hash, move_id) that
\* already holds the encrypted payload of its process_move computation,
\* whatever the order of the callbacks and whichever computations aborted.
EntryAccount(pending, e) ==
    MovePda(pending.game_id, pending.planet_hash, e.move_id)

EntryMatchesAccount(pending, e) ==
    /\ EntryAccount(pending, e) \in DOMAIN move_accounts
    /\ move_accounts[EntryAccount(pending, e)].enc_written

EntriesMatchAccounts ==
    \A p \in DOMAIN pendings :
        \A k \in 1..Len(pendings[p].moves) :
            EntryMatchesAccount(pendings[p], pendings[p].moves[k])

\* C36: a player spawns at most once: no player ever has two accepted
\* init_spawn_planet computations, whatever the order of that player's
\* requests and callbacks.
SpawnsOf(player) == {c \in spawns : c.player = player}

OneSpawnPerPlayer ==
    \A player \in PlayerIds : Cardinality(SpawnsOf(player)) <= 1

(***************************************************************************)
(* Properties of the upgrade path                                          *)
(***************************************************************************)
UpgradeSucceeded ==
    /\ last.ix = "upgrade_planet"
    /\ last.valid = 1
    /\ state.level >= 2

\* a Planet created by init_planet or init_spawn_planet never holds metal
NoUpgradeEverSucceeds ==
    /\ ~UpgradeSucceeded
    /\ state.body_type = 0 => state.metal_count = 0 /\ state.max_metal_capacity = 0

\* C37: from a planet created by init_planet or init_spawn_planet, applying
\* process_move, flush_planet and upgrade_planet leads to an upgrade_planet
\* that returns success = 1 and leaves the planet at level 2 or above.
UpgradeEventuallySucceeds == <>UpgradeSucceeded

(***************************************************************************)
(* Properties of rejected moves                                            *)
(***************************************************************************)
\* what the target holds after the elapsed slots alone: an owned planet
\* regenerates, an unowned one keeps its counts
RegeneratedAlone(target, last_count, max_capacity, gen_speed, tm) ==
    IF target.owner_exists = 1
    THEN ExpectedResource(last_count, max_capacity, gen_speed, tm)
    ELSE last_count

RejectedPayloadIsEmpty ==
    (last.ix = "process_move" /\ last.valid = 0) =>
        /\ last.move_data.ships_arriving = 0
        /\ last.move_data.metal_arriving = 0
        /\ last.revealed.landing_slot = 0
        /\ last.revealed.surviving_ships = 0

RejectedLandingOnlyRegenerates ==
    (last.ix = "flush_planet" /\ last.valid = 0) =>
        /\ KeepOwner(state) = KeepOwner(last.target)
        /\ state.ship_count =
               RegeneratedAlone(last.target, last.target.ship_count,
                   last.target.max_ship_capacity, last.target.ship_gen_speed,
                   last.timing)
        /\ state.metal_count =
               RegeneratedAlone(last.target, last.target.metal_count,
                   last.target.max_metal_capacity, last.target.metal_gen_speed,
                   last.timing)
        /\ state = [last.target EXCEPT !.ship_count = state.ship_count,
                                       !.metal_count = state.metal_count]

\* C38: a process_move that reveals valid = 0 produces a payload with
\* ships_arriving = 0 and metal_arriving = 0 and reveals landing_slot 0 and
\* surviving_ships 0; flushing that payload onto any target, owned or not,
\* with or without ships, leaves the owner as it was and the ship and metal
\* counts at what regeneration alone gives.
RejectedMoveIsHarmless ==
    RejectedPayloadIsEmpty /\ RejectedLandingOnlyRegenerates

\* a rejected payload has been flushed onto an unowned planet with no ships
RejectedMoveIsHarmlessWitness ==
    /\ last.ix = "flush_planet"
    /\ last.valid = 0
    /\ last.target.owner_exists = 0
    /\ last.target.ship_count = 0

\* and onto an owned planet that regenerated meanwhile
RejectedLandingOnOwned ==
    /\ last.ix = "flush_planet"
    /\ last.valid = 0
    /\ last.target.owner_exists = 1
    /\ last.grew

(***************************************************************************)
(* Properties of the landing slot                                          *)
(***************************************************************************)
\* the entry a process_move callback is about to add to planet p
NextEntry(p) ==
    [landing_slot |-> pendings[p].queued_landing_slots[0],
     move_id |-> pendings[p].next_move_id]

\* C39: the landing_slot of the entry that process_move_callback adds for a
\* valid move is the landing slot the process_move circuit computed for the
\* move; a request whose landing_slot argument differs from it adds no entry.
LandingSlotIsComputed ==
    [][\A p \in Planets :
          (AddsEntry(p) /\ last'.ix = "process_move" /\ last'.valid = 1) =>
              NextEntry(p).landing_slot = last'.landing_slot]_vars

(***************************************************************************)
(* Properties of the timing arguments                                      *)
(***************************************************************************)
Submitted == last.ix \in {"queue_flush_planet", "queue_upgrade_planet"}

TimingIsLedgerTiming == Submitted => last.timing = last.ledger

SameLedgerSameAmount == Submitted => last.regen = last.ledger_regen

\* C40: the current slot, game speed and last_updated_slot a flush or
\* upgrade computation runs with are the ledger's values when the request
\* was submitted, so that two requesters at the same ledger state obtain
\* the same regenerated amounts.
ComputationsUseLedgerTiming == TimingIsLedgerTiming /\ SameLedgerSameAmount

=============================================================================
